---------------------------- MODULE Spec2Model ----------------------------
(***************************************************************************)
(* A model of csvsql (github.com/gobylor/csvsql): the fluent QueryBuilder, *)
(* the Engine's table registry and ExecuteQuery's pipeline                  *)
(* (validate, join, filter, project, union).                                *)
(*                                                                         *)
(* Conventions.  A Go string is a sequence of one-character strings, so    *)
(* that TrimSpace, Split, ToLower and the byte order of the comparison     *)
(* operators are computed, not assumed.  A nilable pointer is a sequence   *)
(* of length at most one (<<>> is nil).  An error is the sequence of its   *)
(* message templates, outermost wrapper first (<<>> is a nil error).  A    *)
(* *Query is the id of the builder whose NewQuery allocated it.  Go's      *)
(* 0-based indexes are 1-based here.                                       *)
(***************************************************************************)
EXTENDS Integers, Sequences, FiniteSets, TLC

(***************************************************************************)
(* Bounds of the model.                                                     *)
(***************************************************************************)
\* calls an unscripted client issues
MaxCalls == 3

(***************************************************************************)
(* Strings.                                                                 *)
(***************************************************************************)
\* The characters the model's strings are made of, in byte order.
ASCII ==
  <<"\t", " ", "%", "*", ".", "0", "1", "2", "3", "9", "A", "I", "K", "N",
    "U", "V", "_", "a", "b", "c", "i", "k", "n", "o", "u", "v", "x", "|">>

Ord(c) == CHOOSE i \in 1..Len(ASCII) : ASCII[i] = c

Upper == <<"A", "I", "K", "N", "U", "V">>
Lower == <<"a", "i", "k", "n", "u", "v">>

\* unicode.ToLower on one character
LowerChar(c) ==
  IF \E i \in 1..Len(Upper) : Upper[i] = c
  THEN Lower[CHOOSE i \in 1..Len(Upper) : Upper[i] = c]
  ELSE c

\* strings.ToLower
ToLower(s) == [i \in 1..Len(s) |-> LowerChar(s[i])]

\* unicode.IsSpace, on the model's characters
IsSpace(c) == c \in {" ", "\t"}

RECURSIVE TrimLeft(_)
TrimLeft(s) ==
  IF s # <<>> /\ IsSpace(Head(s)) THEN TrimLeft(Tail(s)) ELSE s

RECURSIVE TrimRight(_)
TrimRight(s) ==
  IF s # <<>> /\ IsSpace(s[Len(s)])
  THEN TrimRight(SubSeq(s, 1, Len(s) - 1))
  ELSE s

\* strings.TrimSpace
TrimSpace(s) == TrimRight(TrimLeft(s))

\* strings.Split(s, "."): the parts between the dots, at least one part
RECURSIVE SplitDot(_)
SplitDot(s) ==
  IF \E i \in 1..Len(s) : s[i] = "."
  THEN LET i == CHOOSE j \in 1..Len(s) :
                  s[j] = "." /\ \A k \in 1..(j - 1) : s[k] # "."
       IN <<SubSeq(s, 1, i - 1)>> \o SplitDot(SubSeq(s, i + 1, Len(s)))
  ELSE <<s>>

\* < on the numbers two strings of digits without leading zeros stand for:
\* the shorter one is less, and of two of the same length the one with the
\* smaller first differing digit
StrLessAsNumbers(l, r) ==
  \/ Len(l) < Len(r)
  \/ /\ Len(l) = Len(r)
     /\ \E k \in 1..Len(l) :
          /\ SubSeq(l, 1, k - 1) = SubSeq(r, 1, k - 1)
          /\ Ord(l[k]) < Ord(r[k])

\* Go's < on strings: byte-wise lexicographic order
RECURSIVE StrLess(_, _)
StrLess(l, r) ==
  IF r = <<>> THEN FALSE
  ELSE IF l = <<>> THEN TRUE
  ELSE IF Head(l) = Head(r) THEN StrLess(Tail(l), Tail(r))
  ELSE Ord(Head(l)) < Ord(Head(r))

(***************************************************************************)
(* Tables and the loader.                                                   *)
(***************************************************************************)
\* The files on disk, as the records encoding/csv reads from them: users.csv
\* and orders.csv, a file whose second record is short, and an empty file.
\* A path that is not in the domain does not exist.
Files ==
  [users   |-> << <<<<"i">>, <<"n">>>>,
                  <<<<"a">>, <<"1">>>>,
                  <<<<"a">>, <<"1", " ">>>>,
                  <<<<"a", "|", "b">>, <<"c">>>> >>,
   orders  |-> << <<<<"k">>, <<"v">>>>,
                  <<<<"a">>, <<"1">>>>,
                  <<<<"a">>, <<"b", "|", "c">>>> >>,
   amounts |-> << <<<<"k">>, <<"v">>>>,
                  <<<<"1", "0">>, <<"9">>>> >>,
   dupes   |-> << <<<<"N">>, <<"n">>>>,
                  <<<<"a">>, <<"b">>>> >>,
   ragged  |-> << <<<<"k">>, <<"v">>>>,
                  <<<<"a">>>> >>,
   empty   |-> << >>]

\* the HeaderMap loop: a later header overwrites an earlier one with the
\* same lowercased name
HeaderMapOf(headers) ==
  [l \in {ToLower(headers[i]) : i \in 1..Len(headers)} |->
     CHOOSE i \in 1..Len(headers) :
       /\ ToLower(headers[i]) = l
       /\ \A j \in 1..Len(headers) : ToLower(headers[j]) = l => j <= i]

\* NewTableFromCSV: [table, err]
NewTableFromCSV(name, path) ==
  IF path \notin DOMAIN Files
  THEN [table |-> <<>>, err |-> <<"open file error">>]
  ELSE LET recs == Files[path] IN
    IF recs = <<>>
    THEN [table |-> <<>>, err |-> <<"read headers error">>]
    ELSE IF \E i \in 2..Len(recs) : Len(recs[i]) # Len(recs[1])
    THEN [table |-> <<>>, err |-> <<"read rows error">>]
    ELSE [table |-> <<[Name      |-> name,
                       Headers   |-> recs[1],
                       Rows      |-> Tail(recs),
                       HeaderMap |-> HeaderMapOf(recs[1])]>>,
          err   |-> <<>>]

\* Table.GetColumnIndex: [idx, err]
GetColumnIndex(t, column) ==
  LET lookup(name) ==
        IF name \in DOMAIN t.HeaderMap
        THEN [idx |-> t.HeaderMap[name], err |-> <<>>]
        ELSE [idx |-> 0, err |-> <<"column %s not found">>]
  IN lookup(ToLower(column))

(***************************************************************************)
(* Operators (operator.go).  An Operator value is a record: a comparison   *)
(* or logical operator carries its text, LIKE carries nothing.  Evaluate   *)
(* returns [ok, err].                                                       *)
(***************************************************************************)
ComparisonOperators == {"=", "!=", ">", ">=", "<", "<="}
LogicalOperators == {"AND", "OR"}

\* fmt.Sprintf("%v", b) of a bool, and the literal "true"
BoolStr(b) == IF b THEN <<"t", "r", "u", "e">> ELSE <<"f", "a", "l", "s", "e">>

\* ComparisonOperator.Evaluate
ComparisonEvaluate(sym, left, right) ==
  CASE sym = "="  -> [ok |-> left = right, err |-> <<>>]
    [] sym = "!=" -> [ok |-> left # right, err |-> <<>>]
    [] sym = ">"  -> [ok |-> StrLess(right, left), err |-> <<>>]
    [] sym = ">=" -> [ok |-> ~StrLess(left, right), err |-> <<>>]
    [] sym = "<"  -> [ok |-> StrLess(left, right), err |-> <<>>]
    [] sym = "<=" -> [ok |-> ~StrLess(right, left), err |-> <<>>]
    [] OTHER      -> [ok |-> FALSE, err |-> <<"unsupported operator: %s">>]

\* LogicalOperator.Evaluate
LogicalEvaluate(sym, left, right) ==
  LET leftBool  == left = BoolStr(TRUE)
      rightBool == right = BoolStr(TRUE)
  IN CASE sym = "AND" -> [ok |-> leftBool /\ rightBool, err |-> <<>>]
       [] sym = "OR"  -> [ok |-> leftBool \/ rightBool, err |-> <<>>]
       [] OTHER       -> [ok |-> FALSE,
                          err |-> <<"unsupported logical operator: %s">>]

\* strings.ReplaceAll(pattern, "%", ".*") then ReplaceAll(pattern, "_", ".")
RECURSIVE LikeToRegexp(_)
LikeToRegexp(p) ==
  IF p = <<>> THEN <<>>
  ELSE (CASE Head(p) = "%" -> <<".", "*">>
          [] Head(p) = "_" -> <<".">>
          [] OTHER         -> <<Head(p)>>) \o LikeToRegexp(Tail(p))

\* Of Go's regexp syntax a Go string of the model can hold `.`, `*` and
\* `|`; every other character of the model's alphabet is a literal.
\* regexp.Compile of "^" + re + "$" fails on a `*` that follows a `*` (a
\* nested repetition) or a `|` (nothing to repeat); a `*` at the start of re
\* repeats the `^` and compiles.
RegexpInvalid(re) ==
  \E i \in 2..Len(re) : re[i] = "*" /\ re[i - 1] \in {"*", "|"}

\* the alternatives of re, the parts between its `|`
RECURSIVE RegexpAlternatives(_)
RegexpAlternatives(re) ==
  IF \A i \in 1..Len(re) : re[i] # "|" THEN <<re>>
  ELSE LET bar == CHOOSE i \in 1..Len(re) :
                    re[i] = "|" /\ \A j \in 1..(i - 1) : re[j] # "|"
       IN <<SubSeq(re, 1, bar - 1)>>
            \o RegexpAlternatives(SubSeq(re, bar + 1, Len(re)))

\* the whole of s matches re, a concatenation of literals, `.` and `x*`
RECURSIVE RegexpMatch(_, _)
RegexpMatch(re, s) ==
  IF re = <<>> THEN s = <<>>
  ELSE IF Len(re) >= 2 /\ re[2] = "*"
  THEN \E k \in 0..Len(s) :
         /\ \A j \in 1..k : re[1] = "." \/ re[1] = s[j]
         /\ RegexpMatch(SubSeq(re, 3, Len(re)), SubSeq(s, k + 1, Len(s)))
  ELSE /\ s # <<>>
       /\ re[1] = "." \/ re[1] = s[1]
       /\ RegexpMatch(Tail(re), Tail(s))

\* regexp.MatchString("^" + re + "$", s): some part of s matches some
\* alternative.  The `^` belongs to the first alternative and the `$` to the
\* last; `^*` at the start matches at every position.
MatchString(re, s) ==
  LET alts == RegexpAlternatives(re)
      starred(j) == j = 1 /\ alts[j] # <<>> /\ alts[j][1] = "*"
      body(j) == IF starred(j) THEN Tail(alts[j]) ELSE alts[j]
  IN \E j \in 1..Len(alts) :
     \E from \in 0..Len(s) :
     \E to \in from..Len(s) :
       /\ (j = 1 /\ ~starred(j)) => from = 0
       /\ j = Len(alts) => to = Len(s)
       /\ RegexpMatch(body(j), SubSeq(s, from + 1, to))

\* LikeOperator.Evaluate
LikeEvaluate(value, pattern) ==
  LET compiled(re) ==
        IF RegexpInvalid(re)
        THEN [ok |-> FALSE, err |-> <<"invalid LIKE pattern">>]
        ELSE [ok |-> MatchString(re, value), err |-> <<>>]
  IN compiled(LikeToRegexp(pattern))

\* Operator.Evaluate, dispatched on the operator's dynamic type
OpEvaluate(op, left, right) ==
  CASE op.kind = "Comparison" -> ComparisonEvaluate(op.sym, left, right)
    [] op.kind = "Logical"    -> LogicalEvaluate(op.sym, left, right)
    [] op.kind = "Like"       -> LikeEvaluate(left, right)

\* GetOperator: [op, err]; op is a sequence of at most one Operator
GetOperator(text) ==
  IF text \in ComparisonOperators
  THEN [op |-> <<[kind |-> "Comparison", sym |-> text]>>, err |-> <<>>]
  ELSE IF text \in LogicalOperators
  THEN [op |-> <<[kind |-> "Logical", sym |-> text]>>, err |-> <<>>]
  ELSE IF text = "LIKE"
  THEN [op |-> <<[kind |-> "Like"]>>, err |-> <<>>]
  ELSE [op |-> <<>>, err |-> <<"unsupported operator: %s">>]

(***************************************************************************)
(* User-supplied functions.  A func value is its name; "nil" is the nil    *)
(* func.  The behaviours are the ones a caller can hand in: predicates     *)
(* that accept, reject or fail, and a computed column that returns a cell  *)
(* or fails.                                                                *)
(***************************************************************************)
\* a func(row, tables) (bool, error)
CallPredicate(fn, row, tables) ==
  CASE fn = "accept" -> [ok |-> TRUE, err |-> <<>>]
    [] fn = "reject" -> [ok |-> FALSE, err |-> <<>>]
    [] fn = "fail"   -> [ok |-> FALSE, err |-> <<"user error">>]

\* a func(row, tables) (string, error)
CallColumnFunc(fn, row, tables) ==
  CASE fn = "cell" -> [val |-> <<"x">>, err |-> <<>>]
    [] fn = "fail" -> [val |-> <<>>, err |-> <<"user error">>]

(***************************************************************************)
(* Conditions (operator.go) and join conditions (join.go).  row maps a     *)
(* table name to that table's row, tables maps a table name to its Table;  *)
(* both are functions whose domain is the set of keys of the Go map.       *)
(***************************************************************************)
\* `for tName, t := range tables`: Go leaves the iteration order of a map
\* unspecified and the runtime picks one for every loop.  scan is the order
\* the runtime uses, a sequence that holds every key once; it changes
\* arbitrarily from one call to the next.
VARIABLE scan

Orders(keys) ==
  {o \in [1..Cardinality(keys) -> keys] :
     \A k \in keys : \E i \in DOMAIN o : o[i] = k}

\* The scan loop over the tables from position i of the order on, shared by
\* SimpleCondition.Evaluate and findTableForColumn: foundInTable is "" until
\* a table with the column is met, and a table with the column met while
\* foundInTable is not "" ends the loop as ambiguous.
RECURSIVE scanTables(_, _, _, _, _)
scanTables(order, i, tables, colName, foundInTable) ==
  IF i > Len(order)
  THEN [foundInTable |-> foundInTable, ambiguous |-> FALSE]
  ELSE IF GetColumnIndex(tables[order[i]], colName).err # <<>>
  THEN scanTables(order, i + 1, tables, colName, foundInTable)
  ELSE IF foundInTable # <<>>
  THEN [foundInTable |-> foundInTable, ambiguous |-> TRUE]
  ELSE scanTables(order, i + 1, tables, colName, order[i])

\* SimpleCondition.Evaluate: the column is resolved to [tableName, colIdx,
\* err], then the operator is applied to the cell
SimpleEvaluate(c, row, tables) ==
  LET apply(res) ==
        IF res.err # <<>> THEN [ok |-> FALSE, err |-> res.err]
        ELSE IF res.tableName \notin DOMAIN row
        THEN [ok |-> FALSE, err |-> <<"table %s not found in row data">>]
        ELSE IF res.colIdx > Len(row[res.tableName])
        THEN [ok |-> FALSE,
              err |-> <<"column index %d out of range for table %s">>]
        ELSE OpEvaluate(c.Op, row[res.tableName][res.colIdx], c.Value)
      qualified(tableName, g) ==
        IF g.err # <<>>
        THEN [tableName |-> <<>>, colIdx |-> 0,
              err |-> <<"column error">> \o g.err]
        ELSE [tableName |-> tableName, colIdx |-> g.idx, err |-> <<>>]
      only(t, colName) ==
        [tableName |-> t, colIdx |-> GetColumnIndex(tables[t], colName).idx,
         err |-> <<>>]
      bare(found, colName) ==
        IF found.ambiguous
        THEN [tableName |-> <<>>, colIdx |-> 0,
              err |-> <<"ambiguous column name: %s exists in multiple tables">>]
        ELSE IF found.foundInTable = <<>>
        THEN [tableName |-> <<>>, colIdx |-> 0,
              err |-> <<"column not found in any table: %s">>]
        ELSE only(found.foundInTable, colName)
      resolve(parts) ==
        IF Len(parts) = 2
        THEN IF parts[1] \notin DOMAIN tables
             THEN [tableName |-> <<>>, colIdx |-> 0,
                   err |-> <<"table %s not found">>]
             ELSE qualified(parts[1],
                            GetColumnIndex(tables[parts[1]], parts[2]))
        ELSE IF Len(parts) = 1
        THEN bare(scanTables(scan, 1, tables, parts[1], <<>>), parts[1])
        ELSE [tableName |-> <<>>, colIdx |-> 0,
              err |-> <<"invalid column name format: %s">>]
  IN apply(resolve(SplitDot(c.Column)))

\* Condition.Evaluate with a CompositeCondition that evaluates both sides
\* before it looks at the operator
RECURSIVE EvaluateEager(_, _, _)
EvaluateEager(c, row, tables) ==
  LET result(r, invoked) ==
        [ok |-> r.ok, err |-> r.err, invoked |-> invoked]
      combined(l, r, e) ==
        IF l.err # <<>>
        THEN [ok |-> FALSE, err |-> <<"left condition error">> \o l.err,
              invoked |-> l.invoked \o r.invoked]
        ELSE IF r.err # <<>>
        THEN [ok |-> FALSE, err |-> <<"right condition error">> \o r.err,
              invoked |-> l.invoked \o r.invoked]
        ELSE result(e, l.invoked \o r.invoked)
      both(l, r) ==
        combined(l, r, LogicalEvaluate(c.Operator, BoolStr(l.ok),
                                       BoolStr(r.ok)))
  IN CASE c.kind = "Simple" -> result(SimpleEvaluate(c, row, tables), <<>>)
       [] c.kind = "Custom" ->
            result(CallPredicate(c.fn, row, tables), <<c.fn>>)
       [] c.kind = "Composite" ->
            both(EvaluateEager(c.Left, row, tables),
                 EvaluateEager(c.Right, row, tables))

\* Condition.Evaluate, dispatched on the condition's dynamic type:
\* SimpleCondition, CustomCondition, CompositeCondition.  The result is
\* [ok, err, invoked]: invoked is the history of the evaluation, the
\* user-supplied predicates it called, in the order of the calls.
RECURSIVE Evaluate(_, _, _)
Evaluate(c, row, tables) ==
  LET result(r, invoked) ==
        [ok |-> r.ok, err |-> r.err, invoked |-> invoked]
      combined(l, r, e) ==
        IF e.err # <<>>
        THEN [ok |-> FALSE,
              err |-> <<"operator evaluation error">> \o e.err,
              invoked |-> l.invoked \o r.invoked]
        ELSE result(e, l.invoked \o r.invoked)
      afterRight(l, r) ==
        IF r.err # <<>>
        THEN [ok |-> FALSE, err |-> <<"right condition error">> \o r.err,
              invoked |-> l.invoked \o r.invoked]
        ELSE combined(l, r, LogicalEvaluate(c.Operator, BoolStr(l.ok),
                                            BoolStr(r.ok)))
      afterLeft(l) ==
        IF l.err # <<>>
        THEN [ok |-> FALSE, err |-> <<"left condition error">> \o l.err,
              invoked |-> l.invoked]
        ELSE IF c.Operator = "AND" /\ ~l.ok
        THEN [ok |-> FALSE, err |-> <<>>, invoked |-> l.invoked]
        ELSE IF c.Operator = "OR" /\ l.ok
        THEN [ok |-> TRUE, err |-> <<>>, invoked |-> l.invoked]
        ELSE afterRight(l, Evaluate(c.Right, row, tables))
  IN CASE c.kind = "Simple" -> result(SimpleEvaluate(c, row, tables), <<>>)
       [] c.kind = "Custom" ->
            result(CallPredicate(c.fn, row, tables), <<c.fn>>)
       [] c.kind = "Composite" -> afterLeft(Evaluate(c.Left, row, tables))

\* NewSimpleCondition: [cond, err]
NewSimpleCondition(column, operator, value) ==
  LET made(g) ==
        IF g.err # <<>>
        THEN [cond |-> <<>>, err |-> <<"invalid operator: %s">>]
        ELSE [cond |-> <<[kind |-> "Simple", Column |-> column,
                          Op |-> g.op[1], Value |-> value]>>,
              err |-> <<>>]
  IN IF column = <<>>
     THEN [cond |-> <<>>, err |-> <<"column name cannot be empty">>]
     ELSE made(GetOperator(operator))

\* NewCompositeCondition on two nilable conditions: [cond, err]
NewCompositeCondition(left, right, operator) ==
  LET made(g) ==
        IF g.err # <<>>
        THEN [cond |-> <<>>, err |-> <<"invalid composite operator: %s">>]
        ELSE IF g.op[1].kind # "Logical"
        THEN [cond |-> <<>>, err |-> <<"operator %s is not a logical operator">>]
        ELSE [cond |-> <<[kind |-> "Composite", Left |-> left[1],
                          Right |-> right[1], Operator |-> operator]>>,
              err |-> <<>>]
  IN IF left = <<>> \/ right = <<>>
     THEN [cond |-> <<>>, err |-> <<"both conditions must be non-nil">>]
     ELSE made(GetOperator(operator))

\* JoinCondition.EvaluateJoin
JoinConditionEvaluate(jc, row, tables) ==
  IF jc.LeftTable \notin DOMAIN tables
  THEN [ok |-> FALSE, err |-> <<"left table %s not found">>]
  ELSE IF jc.RightTable \notin DOMAIN tables
  THEN [ok |-> FALSE, err |-> <<"right table %s not found">>]
  ELSE LET compare(l, r) ==
             IF l.err # <<>> THEN [ok |-> FALSE, err |-> l.err]
             ELSE IF r.err # <<>> THEN [ok |-> FALSE, err |-> r.err]
             ELSE IF jc.LeftTable \notin DOMAIN row
             THEN [ok |-> FALSE,
                   err |-> <<"left table %s not found in row data">>]
             ELSE IF jc.RightTable \notin DOMAIN row
             THEN [ok |-> FALSE,
                   err |-> <<"right table %s not found in row data">>]
             ELSE OpEvaluate(jc.Op, row[jc.LeftTable][l.idx],
                             row[jc.RightTable][r.idx])
       IN compare(GetColumnIndex(tables[jc.LeftTable], jc.LeftCol),
                  GetColumnIndex(tables[jc.RightTable], jc.RightCol))

\* JoinConditionEvaluator.EvaluateJoin, dispatched on the dynamic type:
\* JoinCondition (set by On) or CustomJoinCondition (set by OnFunc)
EvaluateJoin(c, row, tables) ==
  CASE c.kind = "Join"       -> JoinConditionEvaluate(c, row, tables)
    [] c.kind = "CustomJoin" -> CallPredicate(c.fn, row, tables)

(***************************************************************************)
(* The Engine's pipeline (engine.go) on one Query.  T is e.tables, a       *)
(* function from the registered aliases to their Tables.  A Query is       *)
(*   [Select, From, Where, Joins, Union]                                    *)
(* with Select, From, Where and Union nilable pointers (sequences of        *)
(* length at most one) to                                                   *)
(*   SelectComponent [Columns, CustomColumns],  FromComponent [Table],      *)
(*   WhereComponent [Condition],  UnionComponent [UnionKind, Queries],      *)
(* and Joins a sequence of JoinComponent [Table, Condition, JoinType].      *)
(* A stage returns [.., err] and, where the Go code can panic, panic.       *)
(***************************************************************************)
\* m[k] = v on a Go map
MapSet(m, k, v) == [x \in DOMAIN m \cup {k} |-> IF x = k THEN v ELSE m[x]]

\* the empty Go map
EmptyMap == [x \in {} |-> <<>>]

\* validateQuery: [q, err]; q is the query as validateQuery leaves it
validateQuery(T, q) ==
  IF q.From = <<>> THEN [q |-> q, err |-> <<"FROM clause is required">>]
  ELSE IF q.From[1].Table \notin DOMAIN T
  THEN [q |-> q, err |-> <<"table %s not found">>]
  ELSE IF q.Select = <<>>
  THEN [q |-> [q EXCEPT !.Select =
                 <<[Columns |-> T[q.From[1].Table].Headers,
                    CustomColumns |-> <<>>]>>],
        err |-> <<>>]
  ELSE [q |-> q, err |-> <<>>]

\* initializeJoinedRows
initializeJoinedRows(mainTable) ==
  [i \in 1..Len(mainTable.Rows) |->
     [mainRow    |-> mainTable.Rows[i],
      mainTable  |-> mainTable.Name,
      joinedRows |-> EmptyMap,
      isFiltered |-> FALSE]]

\* createCombinedRow, and the rowMap of evaluateJoinCondition before the
\* row of the table being joined is added: the main row, then every joined
\* row (a joined table of the main table's name replaces the main row)
createCombinedRow(jr) ==
  [n \in {jr.mainTable} \cup DOMAIN jr.joinedRows |->
     IF n \in DOMAIN jr.joinedRows THEN jr.joinedRows[n] ELSE jr.mainRow]

\* createTableDataMap: a copy of e.tables
createTableDataMap(T) == T

\* evaluateJoinCondition: [ok, err].  e.tables[name] of an unregistered
\* name is a nil *Table; the main table and the joined tables of a binding
\* are registered.
evaluateJoinCondition(T, join, jr, joinRow, joinedTable) ==
  LET on(combined) ==
        EvaluateJoin(join.Condition[1],
                     MapSet(combined, join.Table, joinRow),
                     MapSet([n \in DOMAIN combined |-> T[n]],
                            join.Table, joinedTable))
  IN IF join.Condition = <<>> THEN [ok |-> TRUE, err |-> <<>>]
     ELSE on(createCombinedRow(jr))

\* createNewJoinedRow
createNewJoinedRow(jr, tableName, joinRow) ==
  [mainRow    |-> jr.mainRow,
   mainTable  |-> jr.mainTable,
   joinedRows |-> MapSet(jr.joinedRows, tableName, joinRow),
   isFiltered |-> FALSE]

\* performJoin's inner loop over joinedTable.Rows[k..] for one binding jr:
\* [new, err], new the bindings appended to newJoinedRows
RECURSIVE joinOneRow(_, _, _, _, _)
joinOneRow(T, join, joinedTable, jr, k) ==
  LET appended(m, rest) ==
        IF rest.err # <<>> THEN rest
        ELSE [new |-> (IF m.ok
                       THEN <<createNewJoinedRow(jr, join.Table,
                                                 joinedTable.Rows[k])>>
                       ELSE <<>>) \o rest.new,
              err |-> <<>>]
      matched(m) ==
        IF m.err # <<>> THEN [new |-> <<>>, err |-> m.err]
        ELSE appended(m, joinOneRow(T, join, joinedTable, jr, k + 1))
  IN IF k > Len(joinedTable.Rows) THEN [new |-> <<>>, err |-> <<>>]
     ELSE matched(evaluateJoinCondition(T, join, jr, joinedTable.Rows[k],
                                        joinedTable))

\* performJoin's outer loop over (*joinedRows)[i..]: [new, err].  The loop
\* variable jr is a copy of the slice element, so `jr.isFiltered = true`
\* for an unmatched INNER binding changes the copy and not *joinedRows.
RECURSIVE joinLoop(_, _, _, _, _)
joinLoop(T, join, joinedTable, joinedRows, i) ==
  LET appended(one, rest) ==
        IF rest.err # <<>> THEN rest
        ELSE [new |-> one.new \o rest.new, err |-> <<>>]
      joined(one) ==
        IF one.err # <<>> THEN one
        ELSE appended(one, joinLoop(T, join, joinedTable, joinedRows, i + 1))
  IN IF i > Len(joinedRows) THEN [new |-> <<>>, err |-> <<>>]
     ELSE IF joinedRows[i].isFiltered
     THEN joinLoop(T, join, joinedTable, joinedRows, i + 1)
     ELSE joined(joinOneRow(T, join, joinedTable, joinedRows[i], 1))

\* performJoin: [rows, err], rows the value of *joinedRows on return
performJoin(T, join, joinedTable, joinedRows) ==
  LET replaced(r) ==
        IF r.err # <<>> THEN [rows |-> joinedRows, err |-> r.err]
        ELSE IF Len(r.new) > 0 THEN [rows |-> r.new, err |-> <<>>]
        ELSE [rows |-> joinedRows, err |-> <<>>]
  IN replaced(joinLoop(T, join, joinedTable, joinedRows, 1))

\* processJoins from join number i on: [rows, err]
RECURSIVE processJoins(_, _, _, _)
processJoins(T, q, joinedRows, i) ==
  LET next(r) ==
        IF r.err # <<>> THEN r ELSE processJoins(T, q, r.rows, i + 1)
  IN IF i > Len(q.Joins) THEN [rows |-> joinedRows, err |-> <<>>]
     ELSE IF q.Joins[i].Table \notin DOMAIN T
     THEN [rows |-> joinedRows, err |-> <<"join table %s not found">>]
     ELSE next(performJoin(T, q.Joins[i], T[q.Joins[i].Table], joinedRows))

\* applyWhereCondition that excludes the bindings the condition accepts
RECURSIVE applyWhereConditionInverted(_, _, _, _)
applyWhereConditionInverted(T, q, joinedRows, i) ==
  LET after(m, r) ==
        [rows |-> r.rows, err |-> r.err, invoked |-> m.invoked \o r.invoked]
      filtered(m) ==
        IF m.err # <<>>
        THEN [rows |-> joinedRows,
              err |-> <<"where condition evaluation failed">> \o m.err,
              invoked |-> m.invoked]
        ELSE after(m, applyWhereConditionInverted(
                        T, q,
                        IF ~m.ok THEN joinedRows
                        ELSE [joinedRows EXCEPT ![i].isFiltered = TRUE],
                        i + 1))
  IN IF q.Where = <<>> \/ i > Len(joinedRows)
     THEN [rows |-> joinedRows, err |-> <<>>, invoked |-> <<>>]
     ELSE IF joinedRows[i].isFiltered
     THEN applyWhereConditionInverted(T, q, joinedRows, i + 1)
     ELSE filtered(Evaluate(q.Where[1].Condition[1],
                            createCombinedRow(joinedRows[i]),
                            createTableDataMap(T)))

\* applyWhereCondition from binding i on: [rows, err, invoked], invoked the
\* history of the stage: the user predicates called, in order
RECURSIVE applyWhereCondition(_, _, _, _)
applyWhereCondition(T, q, joinedRows, i) ==
  LET after(m, r) ==
        [rows |-> r.rows, err |-> r.err, invoked |-> m.invoked \o r.invoked]
      filtered(m) ==
        IF m.err # <<>>
        THEN [rows |-> joinedRows,
              err |-> <<"where condition evaluation failed">> \o m.err,
              invoked |-> m.invoked]
        ELSE after(m, applyWhereCondition(
                        T, q,
                        IF m.ok THEN joinedRows
                        ELSE [joinedRows EXCEPT ![i].isFiltered = TRUE],
                        i + 1))
  IN IF q.Where = <<>> \/ i > Len(joinedRows)
     THEN [rows |-> joinedRows, err |-> <<>>, invoked |-> <<>>]
     ELSE IF joinedRows[i].isFiltered
     THEN applyWhereCondition(T, q, joinedRows, i + 1)
     ELSE filtered(Evaluate(q.Where[1].Condition[1],
                            createCombinedRow(joinedRows[i]),
                            createTableDataMap(T)))

(***************************************************************************)
(* Projection: SelectComponent.expandWildcards (select.go) and the          *)
(* Engine's projectColumns.                                                 *)
(***************************************************************************)
\* prefixColumns without the table name and the dot
prefixColumnsBare(columns, tableName) == columns

\* prefixColumns
prefixColumns(columns, tableName) ==
  [i \in 1..Len(columns) |-> tableName \o <<".">> \o columns[i]]

\* the `if !seen[col] { append; seen[col] = true }` loop over cols: seen
\* holds exactly the names already in expandedColumns
RECURSIVE appendUnseen(_, _)
appendUnseen(expandedColumns, cols) ==
  IF cols = <<>> THEN expandedColumns
  ELSE appendUnseen(
         IF \E i \in 1..Len(expandedColumns) :
              expandedColumns[i] = Head(cols)
         THEN expandedColumns
         ELSE Append(expandedColumns, Head(cols)),
         Tail(cols))

\* the columns `*` stands for: the main table's, then each joined table's
\* that is registered, in join order
RECURSIVE starColumns(_, _, _)
starColumns(T, mainTable, joinedTables) ==
  IF joinedTables = <<>> THEN prefixColumns(T[mainTable].Headers, mainTable)
  ELSE LET n    == joinedTables[Len(joinedTables)]
           init == SubSeq(joinedTables, 1, Len(joinedTables) - 1)
       IN starColumns(T, mainTable, init)
            \o (IF n \in DOMAIN T THEN prefixColumns(T[n].Headers, n)
                ELSE <<>>)

\* strings.HasSuffix(col, ".*")
HasStarSuffix(col) ==
  Len(col) >= 2 /\ col[Len(col) - 1] = "." /\ col[Len(col)] = "*"

\* expandWildcards' loop over s.Columns[i..]: [cols, err]
RECURSIVE expandFrom(_, _, _, _, _, _)
expandFrom(columns, T, mainTable, joinedTables, i, expandedColumns) ==
  IF i > Len(columns) THEN [cols |-> expandedColumns, err |-> <<>>]
  ELSE LET col == columns[i] IN
    IF col = <<"*">>
    THEN expandFrom(columns, T, mainTable, joinedTables, i + 1,
                    appendUnseen(expandedColumns,
                                 starColumns(T, mainTable, joinedTables)))
    ELSE IF HasStarSuffix(col)
    THEN LET tableName == SubSeq(col, 1, Len(col) - 2) IN
         IF tableName \notin DOMAIN T
         THEN [cols |-> <<>>, err |-> <<"table %s not found">>]
         ELSE expandFrom(columns, T, mainTable, joinedTables, i + 1,
                         appendUnseen(expandedColumns,
                                      prefixColumns(T[tableName].Headers,
                                                    tableName)))
    ELSE expandFrom(columns, T, mainTable, joinedTables, i + 1,
                    appendUnseen(expandedColumns, <<col>>))

\* SelectComponent.expandWildcards: [cols, err]
expandWildcards(sel, T, mainTable, joinedTables) ==
  IF Len(sel.Columns) = 0
  THEN [cols |-> <<>>, err |-> <<"SELECT must specify at least one column">>]
  ELSE expandFrom(sel.Columns, T, mainTable, joinedTables, 1, <<>>)

\* findTableForColumn: the table name, <<>> for ""
findTableForColumn(T, colName, mainTableName) ==
  LET scanned(found) ==
        IF found.ambiguous THEN <<>> ELSE found.foundInTable
  IN IF GetColumnIndex(T[mainTableName], colName).err = <<>>
     THEN mainTableName
     ELSE scanned(scanTables(scan, 1, T, colName, <<>>))

\* extractColumnValue: [val, err, panic].  e.tables[tableName] of an
\* unregistered name is a nil *Table, and GetColumnIndex on it reads
\* t.HeaderMap through the nil pointer.
extractColumnValue(T, tableName, colName, jr) ==
  LET cell(g) ==
        IF g.err # <<>> THEN [val |-> <<>>, err |-> g.err, panic |-> FALSE]
        ELSE IF tableName = jr.mainTable
        THEN [val |-> jr.mainRow[g.idx], err |-> <<>>, panic |-> FALSE]
        ELSE IF tableName \notin DOMAIN jr.joinedRows
        THEN [val |-> <<>>, err |-> <<"table %s not found in joined result">>,
              panic |-> FALSE]
        ELSE [val |-> jr.joinedRows[tableName][g.idx], err |-> <<>>,
              panic |-> FALSE]
  IN IF tableName \notin DOMAIN T
     THEN [val |-> <<>>, err |-> <<>>, panic |-> TRUE]
     ELSE cell(GetColumnIndex(T[tableName], colName))

\* getColumnValue: [val, err, panic]
getColumnValue(T, col, jr) ==
  LET located(tableName, colName) ==
        IF tableName = <<>>
        THEN [val |-> <<>>, err |-> <<"column not found in any table: %s">>,
              panic |-> FALSE]
        ELSE extractColumnValue(T, tableName, colName, jr)
      split(parts) ==
        IF Len(parts) = 2 THEN extractColumnValue(T, parts[1], parts[2], jr)
        ELSE IF Len(parts) = 1
        THEN located(findTableForColumn(T, parts[1], jr.mainTable), parts[1])
        ELSE [val |-> <<>>, err |-> <<"invalid column name format: %s">>,
              panic |-> FALSE]
  IN split(SplitDot(col))

\* createResultRow's first loop, over columns[i..]: [row, err, panic]
RECURSIVE regularValues(_, _, _, _)
regularValues(T, columns, jr, i) ==
  LET appended(v, rest) ==
        IF rest.panic \/ rest.err # <<>> THEN rest
        ELSE [row |-> <<v.val>> \o rest.row, err |-> <<>>, panic |-> FALSE]
      got(v) ==
        IF v.panic THEN [row |-> <<>>, err |-> <<>>, panic |-> TRUE]
        ELSE IF v.err # <<>>
        THEN [row |-> <<>>, err |-> <<"failed to get column value">> \o v.err,
              panic |-> FALSE]
        ELSE appended(v, regularValues(T, columns, jr, i + 1))
  IN IF i > Len(columns) THEN [row |-> <<>>, err |-> <<>>, panic |-> FALSE]
     ELSE got(getColumnValue(T, columns[i], jr))

\* createResultRow's second loop, over q.Select.CustomColumns[i..].
\* Calling a nil Func panics.
RECURSIVE customValues(_, _, _, _)
customValues(T, customColumns, jr, i) ==
  LET appended(v, rest) ==
        IF rest.panic \/ rest.err # <<>> THEN rest
        ELSE [row |-> <<v.val>> \o rest.row, err |-> <<>>, panic |-> FALSE]
      got(v) ==
        IF v.err # <<>>
        THEN [row |-> <<>>,
              err |-> <<"failed to compute custom column %s">> \o v.err,
              panic |-> FALSE]
        ELSE appended(v, customValues(T, customColumns, jr, i + 1))
  IN IF i > Len(customColumns)
     THEN [row |-> <<>>, err |-> <<>>, panic |-> FALSE]
     ELSE IF customColumns[i].Func = "nil"
     THEN [row |-> <<>>, err |-> <<>>, panic |-> TRUE]
     ELSE got(CallColumnFunc(customColumns[i].Func, createCombinedRow(jr),
                             createTableDataMap(T)))

\* createResultRow without its second loop
createResultRowRegularOnly(T, columns, jr, q) ==
  regularValues(T, columns, jr, 1)

\* createResultRow: [row, err, panic]
createResultRow(T, columns, jr, q) ==
  LET both(reg, cus) ==
        IF cus.panic \/ cus.err # <<>> THEN cus
        ELSE [row |-> reg.row \o cus.row, err |-> <<>>, panic |-> FALSE]
      regular(reg) ==
        IF reg.panic \/ reg.err # <<>> THEN reg
        ELSE both(reg, customValues(T, q.Select[1].CustomColumns, jr, 1))
  IN regular(regularValues(T, columns, jr, 1))

\* projectColumns' loop over joinedRows[i..]: [rows, err, panic]
RECURSIVE resultRows(_, _, _, _, _)
resultRows(T, columns, joinedRows, q, i) ==
  LET appended(r, rest) ==
        IF rest.panic \/ rest.err # <<>> THEN rest
        ELSE [rows |-> <<r.row>> \o rest.rows, err |-> <<>>, panic |-> FALSE]
      made(r) ==
        IF r.panic \/ r.err # <<>>
        THEN [rows |-> <<>>, err |-> r.err, panic |-> r.panic]
        ELSE appended(r, resultRows(T, columns, joinedRows, q, i + 1))
  IN IF i > Len(joinedRows)
     THEN [rows |-> <<>>, err |-> <<>>, panic |-> FALSE]
     ELSE IF joinedRows[i].isFiltered
     THEN resultRows(T, columns, joinedRows, q, i + 1)
     ELSE made(createResultRow(T, columns, joinedRows[i], q))

\* projectColumns: [rows, err, panic]; rows[1] is the header row
projectColumns(T, q, joinedRows) ==
  LET headed(x, r) ==
        IF r.panic \/ r.err # <<>> THEN r
        ELSE [rows |-> <<x.cols \o
                         [i \in 1..Len(q.Select[1].CustomColumns) |->
                            q.Select[1].CustomColumns[i].Name]>> \o r.rows,
              err |-> <<>>, panic |-> FALSE]
      expanded(x) ==
        IF x.err # <<>>
        THEN [rows |-> <<>>, err |-> <<"failed to expand wildcards">> \o x.err,
              panic |-> FALSE]
        ELSE headed(x, resultRows(T, x.cols, joinedRows, q, 1))
  IN expanded(expandWildcards(q.Select[1], T, q.From[1].Table,
                              [i \in 1..Len(q.Joins) |-> q.Joins[i].Table]))

(***************************************************************************)
(* Query execution over the heap.  H maps a builder id to that builder     *)
(* [query, err]; H[p].query is the Query object *p, which the builder and  *)
(* every holder of the pointer share.  An execution returns                 *)
(* [heap, rows, err, panic]: the heap as it leaves it, and either the       *)
(* result rows (rows[1] the header), or a nil result (<<>>) and an error,   *)
(* or a panic.                                                              *)
(***************************************************************************)
\* executeQueryInternal
executeQueryInternal(T, H, p) ==
  LET failed(heap, err) ==
        [heap |-> heap, rows |-> <<>>, err |-> err, panic |-> FALSE]
      projected(heap, r) ==
        [heap |-> heap, rows |-> r.rows, err |-> r.err, panic |-> r.panic]
      filtered(heap, q, w) ==
        IF w.err # <<>> THEN failed(heap, w.err)
        ELSE projected(heap, projectColumns(T, q, w.rows))
      joined(heap, q, j) ==
        IF j.err # <<>> THEN failed(heap, j.err)
        ELSE filtered(heap, q, applyWhereCondition(T, q, j.rows, 1))
      validated(v) ==
        IF v.err # <<>> THEN failed([H EXCEPT ![p].query = v.q], v.err)
        ELSE joined([H EXCEPT ![p].query = v.q], v.q,
                    processJoins(T, v.q,
                                 initializeJoinedRows(T[v.q.From[1].Table]),
                                 1))
  IN validated(validateQuery(T, H[p].query))

\* createRowKey without strings.TrimSpace
RECURSIVE createRowKeyUntrimmed(_)
createRowKeyUntrimmed(row) ==
  IF row = <<>> THEN <<>>
  ELSE IF Len(row) = 1 THEN row[1]
  ELSE createRowKeyUntrimmed(SubSeq(row, 1, Len(row) - 1))
         \o <<"|">> \o row[Len(row)]

\* strings.Builder's WriteString over the cells of a row, "|" between them
RECURSIVE createRowKey(_)
createRowKey(row) ==
  IF row = <<>> THEN <<>>
  ELSE IF Len(row) = 1 THEN TrimSpace(row[1])
  ELSE createRowKey(SubSeq(row, 1, Len(row) - 1))
         \o <<"|">> \o TrimSpace(row[Len(row)])

\* processRow without its UNION ALL branch: every row goes through `seen`
RECURSIVE processRowsSeenOnly(_, _, _)
processRowsSeenOnly(unionKind, st, rows) ==
  LET keyed(key) ==
        IF key \notin st.seen
        THEN [final |-> Append(st.final, Head(rows)),
              seen  |-> st.seen \cup {key}]
        ELSE st
  IN IF rows = <<>> THEN st
     ELSE processRowsSeenOnly(unionKind, keyed(createRowKey(Head(rows))),
                              Tail(rows))

\* processRow that takes the UNION ALL branch whatever the kind
RECURSIVE processRowsAppendOnly(_, _, _)
processRowsAppendOnly(unionKind, st, rows) ==
  IF rows = <<>> THEN st
  ELSE processRowsAppendOnly(unionKind,
                             [st EXCEPT !.final = Append(@, Head(rows))],
                             Tail(rows))

\* mergeUnionResults' closure processRow applied to rows in order; st is
\* [final, seen], the closure's captured finalResults and seen
RECURSIVE processRows(_, _, _)
processRows(unionKind, st, rows) ==
  LET keyed(key) ==
        IF key \notin st.seen
        THEN [final |-> Append(st.final, Head(rows)),
              seen  |-> st.seen \cup {key}]
        ELSE st
  IN IF rows = <<>> THEN st
     ELSE processRows(unionKind,
                      IF unionKind = "UNION ALL"
                      THEN [st EXCEPT !.final = Append(@, Head(rows))]
                      ELSE keyed(createRowKey(Head(rows))),
                      Tail(rows))

\* mergeUnionResults' loop over q.Union.Queries[i..]
RECURSIVE mergeSiblings(_, _, _, _, _)
mergeSiblings(T, H, u, st, i) ==
  LET merged(r) ==
        IF r.panic \/ r.err # <<>> THEN r
        ELSE mergeSiblings(T, r.heap, u,
                           processRows(u.UnionKind, st, Tail(r.rows)), i + 1)
  IN IF i > Len(u.Queries)
     THEN [heap |-> H, rows |-> st.final, err |-> <<>>, panic |-> FALSE]
     ELSE merged(executeQueryInternal(T, H, u.Queries[i]))

\* the siblings queries[i..] followed by the siblings of each of them
RECURSIVE withTheirSiblings(_, _, _)
withTheirSiblings(H, queries, i) ==
  IF i > Len(queries) THEN queries
  ELSE withTheirSiblings(H, queries, i + 1)
         \o (IF H[queries[i]].query.Union = <<>> THEN <<>>
             ELSE H[queries[i]].query.Union[1].Queries)

\* mergeUnionResults that also merges the siblings of the siblings
mergeUnionResultsDeep(T, H, p, baseResults) ==
  mergeSiblings(T, H,
                [H[p].query.Union[1] EXCEPT
                   !.Queries = withTheirSiblings(H, @, 1)],
                processRows(H[p].query.Union[1].UnionKind,
                            [final |-> <<baseResults[1]>>, seen |-> {}],
                            Tail(baseResults)),
                1)

\* mergeUnionResults
mergeUnionResults(T, H, p, baseResults) ==
  mergeSiblings(T, H, H[p].query.Union[1],
                processRows(H[p].query.Union[1].UnionKind,
                            [final |-> <<baseResults[1]>>, seen |-> {}],
                            Tail(baseResults)),
                1)

\* handleUnionOperation's loop without the comparison with baseColumns
RECURSIVE checkSiblingsUncounted(_, _, _, _, _)
checkSiblingsUncounted(T, H, queries, baseColumns, i) ==
  LET checked(r) ==
        IF r.panic THEN [heap |-> r.heap, err |-> <<>>, panic |-> TRUE]
        ELSE IF r.err # <<>>
        THEN [heap |-> r.heap,
              err |-> <<"union query execution failed">> \o r.err,
              panic |-> FALSE]
        ELSE checkSiblingsUncounted(T, r.heap, queries, baseColumns, i + 1)
  IN IF i > Len(queries) THEN [heap |-> H, err |-> <<>>, panic |-> FALSE]
     ELSE checked(executeQueryInternal(T, H, queries[i]))

\* handleUnionOperation's loop over q.Union.Queries[i..]: [heap, err, panic]
RECURSIVE checkSiblings(_, _, _, _, _)
checkSiblings(T, H, queries, baseColumns, i) ==
  LET checked(r) ==
        IF r.panic THEN [heap |-> r.heap, err |-> <<>>, panic |-> TRUE]
        ELSE IF r.err # <<>>
        THEN [heap |-> r.heap,
              err |-> <<"union query execution failed">> \o r.err,
              panic |-> FALSE]
        ELSE IF Len(r.rows) > 0 /\ Len(r.rows[1]) # baseColumns
        THEN [heap |-> r.heap,
              err |-> <<"UNION queries must have the same number of columns">>,
              panic |-> FALSE]
        ELSE checkSiblings(T, r.heap, queries, baseColumns, i + 1)
  IN IF i > Len(queries) THEN [heap |-> H, err |-> <<>>, panic |-> FALSE]
     ELSE checked(executeQueryInternal(T, H, queries[i]))

\* handleUnionOperation returning the primary's rows with a sibling's error
handleUnionOperationPartial(T, H, p, results) ==
  LET merge(c) ==
        IF c.panic \/ c.err # <<>>
        THEN [heap |-> c.heap, rows |-> results, err |-> c.err,
              panic |-> c.panic]
        ELSE mergeUnionResults(T, c.heap, p, results)
  IN IF Len(results) = 0
     THEN [heap |-> H, rows |-> results, err |-> <<>>, panic |-> FALSE]
     ELSE merge(checkSiblings(T, H, H[p].query.Union[1].Queries,
                              Len(results[1]), 1))

\* handleUnionOperation
handleUnionOperation(T, H, p, results) ==
  LET merge(c) ==
        IF c.panic \/ c.err # <<>>
        THEN [heap |-> c.heap, rows |-> <<>>, err |-> c.err, panic |-> c.panic]
        ELSE mergeUnionResults(T, c.heap, p, results)
  IN IF Len(results) = 0
     THEN [heap |-> H, rows |-> results, err |-> <<>>, panic |-> FALSE]
     ELSE merge(checkSiblings(T, H, H[p].query.Union[1].Queries,
                              Len(results[1]), 1))

\* Engine.ExecuteQuery on the Query *p
ExecuteQuery(T, H, p) ==
  LET executed(r) ==
        IF r.panic THEN r
        ELSE IF r.err # <<>>
        THEN [heap |-> r.heap, rows |-> <<>>,
              err |-> <<"query execution failed">> \o r.err, panic |-> FALSE]
        ELSE IF r.heap[p].query.Union # <<>>
        THEN handleUnionOperation(T, r.heap, p, r.rows)
        ELSE r
  IN executed(executeQueryInternal(T, H, p))

\* CreateTable that drops the alias when the load fails
CreateTableDropping(T, alias, filepath) ==
  LET registered(l) ==
        IF l.err # <<>>
        THEN [tables |-> [n \in DOMAIN T \ {alias} |-> T[n]],
              err |-> <<"failed to create table">> \o l.err]
        ELSE [tables |-> MapSet(T, alias, l.table[1]), err |-> <<>>]
  IN registered(NewTableFromCSV(alias, filepath))

\* Engine.CreateTable: [tables, err]
CreateTable(T, alias, filepath) ==
  LET registered(l) ==
        IF l.err # <<>>
        THEN [tables |-> T, err |-> <<"failed to create table">> \o l.err]
        ELSE [tables |-> MapSet(T, alias, l.table[1]), err |-> <<>>]
  IN registered(NewTableFromCSV(alias, filepath))

(***************************************************************************)
(* The QueryBuilder (query.go, select.go, from.go, where.go, join.go,      *)
(* union.go).  A builder is [query, err]; a method returns the builder as  *)
(* the call leaves it.  `other` is a nilable *QueryBuilder: <<>> or <<id>>. *)
(***************************************************************************)
\* NewQuery
NewQuery ==
  [query |-> [Select |-> <<>>, From |-> <<>>, Where |-> <<>>,
              Joins |-> <<>>, Union |-> <<>>],
   err   |-> <<>>]

\* SelectComponent.Validate
SelectValidate(sel) ==
  IF Len(sel.Columns) = 0 /\ Len(sel.CustomColumns) = 0
  THEN <<"SELECT must specify at least one column">> ELSE <<>>

\* FromComponent.Validate
FromValidate(from) ==
  IF from.Table = <<>> THEN <<"FROM must specify a table">> ELSE <<>>

\* WhereComponent.Validate
WhereValidate(where) ==
  IF where.Condition = <<>> THEN <<"WHERE must have a condition">> ELSE <<>>

\* JoinComponent.Validate
JoinValidate(join) ==
  IF join.Table = <<>> THEN <<"JOIN must specify a table">>
  ELSE IF join.Condition = <<>> THEN <<"JOIN must have a condition">>
  ELSE <<>>

\* UnionComponent.Validate
UnionValidate(u) ==
  IF Len(u.Queries) = 0 THEN <<"UNION must have at least one query">>
  ELSE <<>>

\* Build's loop over qb.query.Joins[i..]: the first join's error
RECURSIVE JoinsValidate(_, _)
JoinsValidate(joins, i) ==
  IF i > Len(joins) THEN <<>>
  ELSE IF JoinValidate(joins[i]) # <<>> THEN JoinValidate(joins[i])
  ELSE JoinsValidate(joins, i + 1)

\* QueryBuilder.Build on builder b: [query, err], query the *Query returned
\* (<<b>>, the builder's own Query object) or nil
Build(H, b) ==
  LET validate(q) ==
        IF q.Select # <<>> /\ SelectValidate(q.Select[1]) # <<>>
        THEN [query |-> <<>>, err |-> SelectValidate(q.Select[1])]
        ELSE IF q.From # <<>> /\ FromValidate(q.From[1]) # <<>>
        THEN [query |-> <<>>, err |-> FromValidate(q.From[1])]
        ELSE IF q.Where # <<>> /\ WhereValidate(q.Where[1]) # <<>>
        THEN [query |-> <<>>, err |-> WhereValidate(q.Where[1])]
        ELSE IF JoinsValidate(q.Joins, 1) # <<>>
        THEN [query |-> <<>>, err |-> JoinsValidate(q.Joins, 1)]
        ELSE IF q.Union # <<>> /\ UnionValidate(q.Union[1]) # <<>>
        THEN [query |-> <<>>, err |-> UnionValidate(q.Union[1])]
        ELSE [query |-> <<b>>, err |-> <<>>]
  IN IF H[b].err # <<>> THEN [query |-> <<>>, err |-> H[b].err]
     ELSE validate(H[b].query)

\* QueryBuilder.Select
Select(qb, columns) ==
  IF qb.err # <<>> THEN qb
  ELSE LET sel == IF qb.query.Select = <<>>
                  THEN [Columns |-> <<>>, CustomColumns |-> <<>>]
                  ELSE qb.query.Select[1]
       IN [qb EXCEPT !.query.Select =
             <<[sel EXCEPT !.Columns = @ \o columns]>>]

\* QueryBuilder.SelectCustom
SelectCustom(qb, name, fn) ==
  IF qb.err # <<>> THEN qb
  ELSE LET sel == IF qb.query.Select = <<>>
                  THEN [Columns |-> <<>>, CustomColumns |-> <<>>]
                  ELSE qb.query.Select[1]
       IN [qb EXCEPT !.query.Select =
             <<[sel EXCEPT !.CustomColumns =
                  Append(@, [Name |-> name, Func |-> fn])]>>]

\* From without its `if qb.err != nil` guard
FromUnguarded(qb, table) ==
  [qb EXCEPT !.query.From = <<[Table |-> table]>>]

\* QueryBuilder.From
From(qb, table) ==
  IF qb.err # <<>> THEN qb
  ELSE [qb EXCEPT !.query.From = <<[Table |-> table]>>]

\* QueryBuilder.Where
Where(qb, column, operator, value) ==
  LET set(c) ==
        IF c.err # <<>> THEN [qb EXCEPT !.err = c.err]
        ELSE [qb EXCEPT !.query.Where = <<[Condition |-> c.cond]>>]
  IN IF qb.err # <<>> THEN qb
     ELSE set(NewSimpleCondition(column, operator, value))

\* QueryBuilder.WhereFunc
WhereFunc(qb, fn) ==
  IF qb.err # <<>> THEN qb
  ELSE IF fn = "nil"
  THEN [qb EXCEPT !.err = <<"custom condition function cannot be nil">>]
  ELSE [qb EXCEPT !.query.Where =
          <<[Condition |-> <<[kind |-> "Custom", fn |-> fn]>>]>>]

\* And / Or that put the other builder's condition on the left
ComposeSwapped(H, b, other, operator, message) ==
  LET set(c) ==
        IF c.err # <<>> THEN [H[b] EXCEPT !.err = c.err]
        ELSE [H[b] EXCEPT !.query.Where[1].Condition = c.cond]
  IN IF H[b].err # <<>> THEN H[b]
     ELSE IF other = <<>> \/ H[other[1]].query.Where = <<>>
     THEN [H[b] EXCEPT !.err = <<message>>]
     ELSE IF H[b].query.Where = <<>> THEN [H[b] EXCEPT !.err = <<message>>]
     ELSE set(NewCompositeCondition(H[other[1]].query.Where[1].Condition,
                                    H[b].query.Where[1].Condition,
                                    operator))

\* the common body of QueryBuilder.And and QueryBuilder.Or
Compose(H, b, other, operator, message) ==
  LET set(c) ==
        IF c.err # <<>> THEN [H[b] EXCEPT !.err = c.err]
        ELSE [H[b] EXCEPT !.query.Where[1].Condition = c.cond]
  IN IF H[b].err # <<>> THEN H[b]
     ELSE IF other = <<>> \/ H[other[1]].query.Where = <<>>
     THEN [H[b] EXCEPT !.err = <<message>>]
     ELSE IF H[b].query.Where = <<>> THEN [H[b] EXCEPT !.err = <<message>>]
     ELSE set(NewCompositeCondition(H[b].query.Where[1].Condition,
                                    H[other[1]].query.Where[1].Condition,
                                    operator))

\* QueryBuilder.And
And(H, b, other) == Compose(H, b, other, "AND", "cannot AND with nil condition")

\* QueryBuilder.Or
Or(H, b, other) == Compose(H, b, other, "OR", "cannot OR with nil condition")

\* the common body of InnerJoin, LeftJoin and RightJoin
AddJoin(qb, table, joinType) ==
  IF qb.err # <<>> THEN qb
  ELSE [qb EXCEPT !.query.Joins =
          Append(@, [Table |-> table, Condition |-> <<>>,
                     JoinType |-> joinType])]

\* QueryBuilder.InnerJoin
InnerJoin(qb, table) == AddJoin(qb, table, "InnerJoin")

\* QueryBuilder.LeftJoin
LeftJoin(qb, table) == AddJoin(qb, table, "LeftJoin")

\* QueryBuilder.RightJoin
RightJoin(qb, table) == AddJoin(qb, table, "RightJoin")

\* QueryBuilder.On
On(qb, leftTable, leftCol, operator, rightTable, rightCol) ==
  IF qb.err # <<>> THEN qb
  ELSE IF Len(qb.query.Joins) = 0
  THEN [qb EXCEPT !.err = <<"No JOIN clause to add condition to">>]
  ELSE IF GetOperator(operator).err # <<>>
  THEN [qb EXCEPT !.err = GetOperator(operator).err]
  ELSE [qb EXCEPT !.query.Joins[Len(qb.query.Joins)].Condition =
          <<[kind |-> "Join", LeftTable |-> leftTable, LeftCol |-> leftCol,
             Op |-> GetOperator(operator).op[1],
             RightTable |-> rightTable, RightCol |-> rightCol]>>]

\* QueryBuilder.OnFunc
OnFunc(qb, fn) ==
  IF qb.err # <<>> THEN qb
  ELSE IF Len(qb.query.Joins) = 0
  THEN [qb EXCEPT !.err = <<"No JOIN clause to add condition to">>]
  ELSE IF fn = "nil"
  THEN [qb EXCEPT !.err = <<"join condition function cannot be nil">>]
  ELSE [qb EXCEPT !.query.Joins[Len(qb.query.Joins)].Condition =
          <<[kind |-> "CustomJoin", fn |-> fn]>>]

\* the common body of QueryBuilder.Union and QueryBuilder.UnionAll: the
\* kind is recorded only when the call allocates the UnionComponent
AddUnion(H, b, other, unionKind, message) ==
  LET add(o) ==
        IF o.err # <<>> THEN [H[b] EXCEPT !.err = o.err]
        ELSE IF H[b].query.Union = <<>>
        THEN [H[b] EXCEPT !.query.Union =
                <<[UnionKind |-> unionKind, Queries |-> o.query]>>]
        ELSE [H[b] EXCEPT !.query.Union[1].Queries = @ \o o.query]
  IN IF H[b].err # <<>> THEN H[b]
     ELSE IF other = <<>> THEN [H[b] EXCEPT !.err = <<message>>]
     ELSE add(Build(H, other[1]))

\* QueryBuilder.Union
Union(H, b, other) ==
  AddUnion(H, b, other, "UNION", "cannot UNION with no queries")

\* QueryBuilder.UnionAll
UnionAll(H, b, other) ==
  AddUnion(H, b, other, "UNION ALL", "cannot UNION ALL with nil query")

(***************************************************************************)
(* The state: one Engine, the builders of a client and the client itself.  *)
(***************************************************************************)
VARIABLES
  tables,   \* e.tables: alias -> Table
  qb,       \* the heap: builder id -> [query, err]
  held,     \* the *Query values Build has returned to the client
  prog,     \* the client's script, a sequence of calls; <<>>: unscripted
  pc,       \* the number of the client's next call
  call,     \* the call issued last
  ret,      \* what it returned: [query, rows, err, panic]
  addedBy,  \* history: builder id -> for each sibling of its query, in
            \* order, the method ("Union", "UnionAll") that added it
  run,      \* the goroutines inside ExecuteQuery: goroutine -> its call
            \* stack, its result, and the fields of Query objects it has
            \* read and written; <<>> while the client calls the engine
            \* from one goroutine
  memo      \* for the goroutines: what executeQueryInternal returns after
            \* validateQuery for each Query value a goroutine can read,
            \* computed once (a table of a pure function)

vars == <<tables, qb, held, prog, pc, call, ret, addedBy, scan, run, memo>>

Builders == {"a", "b", "c"}

\* names used by the client: tables u and o are registered at start-up
\* (initializeTables), x never is
tU == <<"u">>
tO == <<"o">>
tX == <<"x">>
\* the alias ""
tE == <<>>

NoReturn == [query |-> <<>>, rows |-> <<>>, err |-> <<>>, panic |-> FALSE]

\* NewEngine
NewEngine == EmptyMap

\* main's initializeTables on a new Engine
initializeTables ==
  CreateTable(CreateTable(NewEngine, tU, "users").tables, tO, "orders").tables

(***************************************************************************)
(* The client's calls.  A call is a record: m the method, b the builder    *)
(* (or, for ExecuteQuery, the Query), and the arguments.                    *)
(***************************************************************************)
cSelect(b, columns) == [m |-> "Select", b |-> b, columns |-> columns]
cSelectCustom(b, name, fn) ==
  [m |-> "SelectCustom", b |-> b, name |-> name, fn |-> fn]
cFrom(b, table) == [m |-> "From", b |-> b, table |-> table]
cWhere(b, column, operator, value) ==
  [m |-> "Where", b |-> b, column |-> column, operator |-> operator,
   value |-> value]
cWhereFunc(b, fn) == [m |-> "WhereFunc", b |-> b, fn |-> fn]
cAnd(b, other) == [m |-> "And", b |-> b, other |-> other]
cOr(b, other) == [m |-> "Or", b |-> b, other |-> other]
cJoin(m, b, table) == [m |-> m, b |-> b, table |-> table]
cOn(b, leftTable, leftCol, operator, rightTable, rightCol) ==
  [m |-> "On", b |-> b, leftTable |-> leftTable, leftCol |-> leftCol,
   operator |-> operator, rightTable |-> rightTable, rightCol |-> rightCol]
cOnFunc(b, fn) == [m |-> "OnFunc", b |-> b, fn |-> fn]
cUnion(m, b, other) == [m |-> m, b |-> b, other |-> other]
cBuild(b) == [m |-> "Build", b |-> b]
cExecuteQuery(b) == [m |-> "ExecuteQuery", b |-> b]
cCreateTable(alias, filepath) ==
  [m |-> "CreateTable", alias |-> alias, filepath |-> filepath]

JoinMethods == {"InnerJoin", "LeftJoin", "RightJoin"}
UnionMethods == {"Union", "UnionAll"}
BuilderMethods ==
  {"Select", "SelectCustom", "From", "Where", "WhereFunc", "And", "Or",
   "On", "OnFunc"} \cup JoinMethods \cup UnionMethods

\* The calls of an unscripted client: every method on builder a, with
\* arguments that succeed and arguments that make the call record an error;
\* on builder b the calls that make it a usable `other`.
FreeCalls ==
  {cSelect("a", <<<<"n">>>>),
   cSelectCustom("a", <<"x">>, "cell"),
   cFrom("a", tU),
   cWhere("a", <<"n">>, "=", <<"1">>),
   cWhere("a", <<"n">>, "~", <<"1">>),
   cWhereFunc("a", "accept"),
   cWhereFunc("a", "nil"),
   cAnd("a", <<"b">>),
   cOr("a", <<"b">>),
   cOn("a", tU, <<"n">>, "=", tO, <<"v">>),
   cOnFunc("a", "accept"),
   cFrom("b", tO),
   cWhere("b", <<"i">>, "=", <<"a">>),
   cBuild("a"),
   cExecuteQuery("a"),
   cCreateTable(tO, "ragged")}
    \cup {cJoin(m, "a", tO) : m \in JoinMethods}
    \cup {cUnion(m, "a", <<"b">>) : m \in UnionMethods}

(***************************************************************************)
(* Scripts.  A scripted client runs one program: it sets up the sibling    *)
(* builders b and c, chains the clauses of the primary builder a, builds   *)
(* and executes.  The programs enumerate the clause combinations the       *)
(* engine's stages distinguish.                                             *)
(***************************************************************************)
\* siblings a union chain may add
MaxSiblings == 2

uI == <<"u", ".", "i">>
uN == <<"u", ".", "n">>
oV == <<"o", ".", "v">>
xN == <<"x", ".", "n">>

Finish == <<cBuild("a"), cExecuteQuery("a")>>

\* FROM u with one join: the SELECT, the join kind and table, the ON clause
\* (none; matching several, no and one pair of rows; naming no column; a
\* predicate accepting or rejecting every pair, or failing) and the WHERE
JoinSelects ==
  {<<>>, <<cSelect("a", <<<<"*">>>>)>>, <<cSelect("a", <<uN, oV>>)>>,
   <<cSelect("a", <<uN>>)>>}

JoinOns ==
  {<<>>,
   <<cOn("a", tU, <<"i">>, "=", tO, <<"k">>)>>,
   <<cOn("a", tU, <<"n">>, "=", tO, <<"k">>)>>,
   <<cOn("a", tU, <<"n">>, "=", tO, <<"v">>)>>,
   <<cOn("a", tU, <<"n">>, "=", tO, <<"x">>)>>,
   <<cOnFunc("a", "accept")>>,
   <<cOnFunc("a", "reject")>>,
   <<cOnFunc("a", "fail")>>}

JoinWheres ==
  {<<>>, <<cWhere("a", <<"n">>, "=", <<"1">>)>>, <<cWhereFunc("a", "fail")>>}

JoinPrograms ==
  {sel \o <<cFrom("a", tU), cJoin(m, "a", t)>> \o on \o wh \o Finish :
     sel \in JoinSelects, m \in JoinMethods, t \in {tO, tX},
     on \in JoinOns, wh \in JoinWheres}

\* unions: what the sibling builders select, what the primary selects, and
\* the chain of Union / UnionAll calls on the primary
SiblingSetups(b) ==
  {<<cFrom(b, tO)>>, <<cFrom(b, tU)>>, <<cFrom(b, tX)>>,
   <<cFrom(b, tO), cSelect(b, <<<<"k">>>>)>>}

PrimarySetups ==
  {<<cFrom("a", tU)>>, <<cFrom("a", tU), cSelect("a", <<<<"i">>>>)>>}

UnionCalls == {cUnion(m, "a", <<o>>) : m \in UnionMethods, o \in Builders}

RECURSIVE UnionChains(_)
UnionChains(n) ==
  IF n = 0 THEN {<<>>}
  ELSE UnionChains(n - 1)
         \cup {Append(ch, c) : ch \in UnionChains(n - 1), c \in UnionCalls}

UnionPrograms ==
  {sb \o sc \o pa \o ch \o Finish :
     sb \in SiblingSetups("b"), sc \in SiblingSetups("c"),
     pa \in PrimarySetups, ch \in UnionChains(MaxSiblings) \ {<<>>}}

\* a sibling with a union of its own: b UNION [ALL] c, then a UNION [ALL] b
NestedPrograms ==
  {sb \o sc \o <<cUnion(inner, "b", <<"c">>)>> \o pa
     \o <<cUnion(outer, "a", <<"b">>)>> \o Finish :
     sb \in {<<cFrom("b", tO)>>, <<cFrom("b", tO), cSelect("b", <<<<"k">>>>)>>},
     sc \in {<<cFrom("c", tU)>>, <<cFrom("c", tO), cSelect("c", <<<<"v">>>>)>>},
     pa \in PrimarySetups, inner \in UnionMethods, outer \in UnionMethods}

\* the same Query executed twice: orders.csv registered under a second
\* alias, FROM o with and without a WHERE on a column of orders.csv
RepeatPrograms ==
  {<<cCreateTable(alias, "orders"), cFrom("a", tO)>> \o wh
     \o <<cBuild("a"), cExecuteQuery("a"), cExecuteQuery("a")>> :
     alias \in {tE, tX},
     wh \in {<<>>, <<cWhere("a", <<"v">>, "=", <<"1">>)>>}}

\* the remaining clauses: a table registered by the client, a WHERE
\* composed with And / Or, computed columns, columns of tables that are not
\* part of the query
TablePrograms ==
  {<<cCreateTable(alias, f), cFrom("a", alias)>> \o Finish :
     alias \in {tX, tO}, f \in {"users", "ragged", "empty", "missing"}}

WherePrograms ==
  {<<cFrom("a", tU)>> \o wa \o wb \o <<[m |-> m, b |-> "a", other |-> o]>>
     \o wc \o Finish :
     wa \in {<<>>, <<cWhere("a", <<"n">>, "=", <<"1">>)>>,
             <<cWhere("a", <<"n">>, "=", <<"c">>)>>},
     wb \in {<<>>, <<cWhere("b", <<"i">>, "=", <<"a">>)>>,
             <<cWhere("b", <<"v">>, "=", <<"a">>)>>,
             <<cWhereFunc("b", "fail")>>},
     m \in {"And", "Or"}, o \in {<<>>, <<"b">>},
     wc \in {<<>>} \cup
              {<<cWhere("c", <<"i">>, "=", <<"a">>),
                 [m |-> n, b |-> "a", other |-> <<"c">>]>> :
                 n \in {"And", "Or"}}}

SelectPrograms ==
  {<<cFrom("a", tU)>> \o se \o cu \o Finish :
     se \in {<<>>, <<cSelect("a", <<<<"n">>>>)>>, <<cSelect("a", <<oV>>)>>,
             <<cSelect("a", <<xN>>)>>, <<cSelect("a", <<<<"v">>>>)>>},
     cu \in {<<>>} \cup {<<cSelectCustom("a", <<"x">>, fn)>> :
                          fn \in {"cell", "fail", "nil"}}}

Programs ==
  JoinPrograms \cup UnionPrograms \cup TablePrograms \cup WherePrograms
    \cup SelectPrograms \cup NestedPrograms \cup RepeatPrograms

(***************************************************************************)
(* Init and the actions: one per call.                                     *)
(***************************************************************************)
InitState ==
  /\ tables = initializeTables
  /\ qb = [b \in Builders |-> NewQuery]
  /\ held = {}
  /\ pc = 1
  /\ call = [m |-> "none"]
  /\ ret = NoReturn
  /\ addedBy = [b \in Builders |-> <<>>]
  /\ scan \in Orders(DOMAIN tables)
  /\ run = <<>>
  /\ memo = <<>>

\* an unscripted client
Init == InitState /\ prog = <<>>

\* a scripted client
InitExec == InitState /\ prog \in Programs

\* the calls the client may issue next; a panic ends the client
Choices ==
  IF ret.panic THEN {}
  ELSE IF prog = <<>> THEN (IF pc <= MaxCalls THEN FreeCalls ELSE {})
  ELSE IF pc <= Len(prog) THEN {prog[pc]}
  ELSE {}

Issue(c) == call' = c /\ pc' = pc + 1 /\ prog' = prog

\* the runtime's order for the loops of the next call
Rescan == scan' \in Orders(DOMAIN tables')

\* a builder method returns the builder
BuilderCall(c, after) ==
  /\ qb' = [qb EXCEPT ![c.b] = after]
  /\ ret' = NoReturn
  /\ Issue(c)
  /\ UNCHANGED <<tables, held, addedBy, run, memo>>
  /\ Rescan

CallSelect ==
  \E c \in Choices :
    c.m = "Select" /\ BuilderCall(c, Select(qb[c.b], c.columns))

CallSelectCustom ==
  \E c \in Choices :
    c.m = "SelectCustom"
      /\ BuilderCall(c, SelectCustom(qb[c.b], c.name, c.fn))

CallFrom ==
  \E c \in Choices :
    c.m = "From" /\ BuilderCall(c, From(qb[c.b], c.table))

CallWhere ==
  \E c \in Choices :
    c.m = "Where"
      /\ BuilderCall(c, Where(qb[c.b], c.column, c.operator, c.value))

CallWhereFunc ==
  \E c \in Choices :
    c.m = "WhereFunc" /\ BuilderCall(c, WhereFunc(qb[c.b], c.fn))

CallAnd ==
  \E c \in Choices :
    c.m = "And" /\ BuilderCall(c, And(qb, c.b, c.other))

CallOr ==
  \E c \in Choices :
    c.m = "Or" /\ BuilderCall(c, Or(qb, c.b, c.other))

CallInnerJoin ==
  \E c \in Choices :
    c.m = "InnerJoin" /\ BuilderCall(c, InnerJoin(qb[c.b], c.table))

CallLeftJoin ==
  \E c \in Choices :
    c.m = "LeftJoin" /\ BuilderCall(c, LeftJoin(qb[c.b], c.table))

CallRightJoin ==
  \E c \in Choices :
    c.m = "RightJoin" /\ BuilderCall(c, RightJoin(qb[c.b], c.table))

CallOn ==
  \E c \in Choices :
    c.m = "On"
      /\ BuilderCall(c, On(qb[c.b], c.leftTable, c.leftCol, c.operator,
                           c.rightTable, c.rightCol))

CallOnFunc ==
  \E c \in Choices :
    c.m = "OnFunc" /\ BuilderCall(c, OnFunc(qb[c.b], c.fn))

\* Union / UnionAll, and the history of which method added each sibling
UnionCall(c, after) ==
  /\ qb' = [qb EXCEPT ![c.b] = after]
  /\ addedBy' = IF after.query.Union # qb[c.b].query.Union
                THEN [addedBy EXCEPT ![c.b] = Append(@, c.m)]
                ELSE addedBy
  /\ ret' = NoReturn
  /\ Issue(c)
  /\ UNCHANGED <<tables, held, run, memo>>
  /\ Rescan

CallUnion ==
  \E c \in Choices :
    c.m = "Union" /\ UnionCall(c, Union(qb, c.b, c.other))

CallUnionAll ==
  \E c \in Choices :
    c.m = "UnionAll" /\ UnionCall(c, UnionAll(qb, c.b, c.other))

\* Build hands the client a *Query, or nil and the error
CallBuild ==
  \E c \in Choices :
    /\ c.m = "Build"
    /\ \E r \in {Build(qb, c.b)} :
         /\ ret' = [NoReturn EXCEPT !.query = r.query, !.err = r.err]
         /\ held' = held \cup {r.query[i] : i \in 1..Len(r.query)}
    /\ Issue(c)
    /\ UNCHANGED <<tables, qb, addedBy, run, memo>>
    /\ Rescan

\* the client executes a Query it holds
CallExecuteQuery ==
  \E c \in Choices :
    /\ c.m = "ExecuteQuery"
    /\ c.b \in held
    /\ \E r \in {ExecuteQuery(tables, qb, c.b)} :
         /\ qb' = r.heap
         /\ ret' = [NoReturn EXCEPT !.rows = r.rows, !.err = r.err,
                                    !.panic = r.panic]
    /\ Issue(c)
    /\ UNCHANGED <<tables, held, addedBy, run, memo>>
    /\ Rescan

CallCreateTable ==
  \E c \in Choices :
    /\ c.m = "CreateTable"
    /\ \E r \in {CreateTable(tables, c.alias, c.filepath)} :
         /\ tables' = r.tables
         /\ ret' = [NoReturn EXCEPT !.err = r.err]
    /\ Issue(c)
    /\ UNCHANGED <<qb, held, addedBy, run, memo>>
    /\ Rescan

Next ==
  \/ CallSelect
  \/ CallSelectCustom
  \/ CallFrom
  \/ CallWhere
  \/ CallWhereFunc
  \/ CallAnd
  \/ CallOr
  \/ CallInnerJoin
  \/ CallLeftJoin
  \/ CallRightJoin
  \/ CallOn
  \/ CallOnFunc
  \/ CallUnion
  \/ CallUnionAll
  \/ CallBuild
  \/ CallExecuteQuery
  \/ CallCreateTable

Spec == Init /\ [][Next]_vars

SpecExec == InitExec /\ [][Next]_vars

(***************************************************************************)
(* The package's exported functions applied on their own: a client that    *)
(* registers tables and then makes one call of Condition.Evaluate,         *)
(* Operator.Evaluate, ... with arguments it made itself.  ret.value is     *)
(* what the call returned.                                                  *)
(***************************************************************************)
\* the tables of an Engine after CreateTable calls that succeeded
Catalogs ==
  {initializeTables,
   CreateTable(initializeTables, tX, "users").tables,
   CreateTable(initializeTables, tE, "users").tables,
   CreateTable(initializeTables, tX, "amounts").tables,
   CreateTable(initializeTables, tX, "dupes").tables,
   CreateTable(CreateTable(NewEngine, tE, "users").tables,
               tO, "orders").tables}

\* the rows a WHERE condition is evaluated on: the combined rows of the
\* bindings of table n, alone and joined with the first row of table o
Bindings(T) ==
  LET alone(n) ==
        {initializeJoinedRows(T[n])[i] : i \in 1..Len(T[n].Rows)}
      all == UNION {alone(n) : n \in DOMAIN T}
  IN {createCombinedRow(jr) : jr \in all}
       \cup {createCombinedRow(createNewJoinedRow(jr, tO, T[tO].Rows[1])) :
               jr \in all}

Custom(fn) == [kind |-> "Custom", fn |-> fn]
Simple(column, operator, value) ==
  NewSimpleCondition(column, operator, value).cond[1]
Composite(left, right, operator) ==
  NewCompositeCondition(<<left>>, <<right>>, operator).cond[1]

CustomLeaves == {Custom("accept"), Custom("reject"), Custom("fail")}
\* on a bare column, a qualified column, a column no table has
SimpleLeaves ==
  {Simple(column, "=", <<"a">>) :
     column \in {<<"i">>, <<"k">>, <<"x">>, uI, <<"u", ".", "x">>}}
Composites(lefts, rights) ==
  {Composite(l, r, op) :
     l \in lefts, r \in rights, op \in LogicalOperators}
EvalConditions ==
  SimpleLeaves
    \cup Composites(CustomLeaves \cup SimpleLeaves,
                    CustomLeaves \cup SimpleLeaves)
    \cup Composites(Composites(CustomLeaves, CustomLeaves), CustomLeaves)
    \cup Composites(CustomLeaves, Composites(CustomLeaves, CustomLeaves))

\* WHERE x.k <op> "9" for every comparison operator
ComparisonLeaves ==
  {Simple(<<"x", ".", "k">>, operator, <<"9">>) :
     operator \in ComparisonOperators}

\* the condition of JOIN table ON leftTable.leftCol <op> rightTable.rightCol
Joining(table, leftTable, leftCol, operator, rightTable, rightCol) ==
  On(InnerJoin(NewQuery, table), leftTable, leftCol, operator, rightTable,
     rightCol).query.Joins[1].Condition[1]
\* ON x.k <op> x.v and ON u.n <op> o.v for every comparison operator
JoinConditions ==
  {Joining(tX, tX, <<"k">>, operator, tX, <<"v">>) :
     operator \in ComparisonOperators}
    \cup {Joining(tO, tU, <<"n">>, operator, tO, <<"v">>) :
            operator \in ComparisonOperators}

\* the rows an ON condition is evaluated on (evaluateJoinCondition's
\* rowMap): a binding of table u and a row of the table being joined
JoinBindings(T) ==
  IF tU \notin DOMAIN T THEN {}
  ELSE UNION {{MapSet(createCombinedRow(initializeJoinedRows(T[tU])[i]),
                      n, T[n].Rows[k]) :
                 i \in 1..Len(T[tU].Rows), k \in 1..Len(T[n].Rows)} :
              n \in {tO, tX} \cap DOMAIN T}

cEvaluate(cond, row) == [m |-> "Evaluate", cond |-> cond, row |-> row]
cEvaluateJoin(cond, row) ==
  [m |-> "EvaluateJoin", cond |-> cond, row |-> row]

\* SELECT lists: the wildcard alone, with a column before it, with a table
\* wildcard after it, a table wildcard, a column list, nothing
Selections ==
  {[Columns |-> columns, CustomColumns |-> <<>>] :
     columns \in {<<<<"*">>>>, <<uI, <<"*">>>>, <<<<"*">>, <<"o", ".", "*">>>>,
                  <<<<"u", ".", "*">>>>, <<uI, uI>>, <<>>}}

\* the tables of the joins of a query that reached projectColumns: at most
\* MaxJoins registered tables
MaxJoins == 2
JoinedTables(T) ==
  UNION {[1..n -> DOMAIN T] : n \in 0..MaxJoins}

\* the strings of at most n characters of an alphabet
StringsOver(alphabet, n) == UNION {[1..k -> alphabet] : k \in 0..n}

\* operands and operators for Operator.Evaluate: LIKE patterns and values
\* with characters that `%`, `_` and the regexp syntax give a meaning;
\* decimal numbers and words for the comparisons
MaxLike == 2
LikePatterns == StringsOver({"a", "b", ".", "*", "|", "%", "_"}, MaxLike)
LikeValues == StringsOver({"a", "b", "."}, MaxLike)
MaxOperand == 2
Operands == StringsOver({"0", "1", "9", "a"}, MaxOperand)

cOperator(text, left, right) ==
  [m |-> "Operator", text |-> text, left |-> left, right |-> right]

OperatorCalls ==
  {cOperator("LIKE", value, pattern) :
     value \in LikeValues, pattern \in LikePatterns}
    \cup {cOperator(text, left, right) :
            text \in ComparisonOperators, left \in Operands,
            right \in Operands}

\* column names to look up: the headers of the files in both casings, a
\* name that is no header, the empty name
ColumnNames ==
  {<<"i">>, <<"I">>, <<"n">>, <<"N">>, <<"k">>, <<"K">>, <<"v">>, <<"V">>,
   <<"x">>, <<>>}

cGetColumnIndex(table, column) ==
  [m |-> "GetColumnIndex", table |-> table, column |-> column]

\* ON clauses for a join of table o or x to FROM u: an equality that some
\* bindings satisfy, one that none satisfies, a predicate that accepts and
\* one that rejects every pair
JoinOnClauses ==
  {[table |-> tO, fn |-> "", leftCol |-> <<"i">>, rightCol |-> <<"k">>],
   [table |-> tO, fn |-> "", leftCol |-> <<"n">>, rightCol |-> <<"k">>],
   [table |-> tO, fn |-> "accept"],
   [table |-> tO, fn |-> "reject"],
   [table |-> tX, fn |-> "", leftCol |-> <<"i">>, rightCol |-> <<"i">>],
   [table |-> tX, fn |-> "reject"]}

\* the builder after <kind>Join(table) and On(...) or OnFunc(...)
JoinClause(builder, kind, on) ==
  IF on.fn = ""
  THEN On(AddJoin(builder, on.table, kind), tU, on.leftCol, "=", on.table,
          on.rightCol)
  ELSE OnFunc(AddJoin(builder, on.table, kind), on.fn)

\* the builders of FROM u with n joins
RECURSIVE JoinChains(_)
JoinChains(n) ==
  IF n = 0 THEN {From(NewQuery, tU)}
  ELSE {JoinClause(builder, kind, on) :
          builder \in JoinChains(n - 1), kind \in JoinMethods,
          on \in JoinOnClauses}

cProcessJoins(q) == [m |-> "processJoins", q |-> q]

\* processJoins is reached with a registered FROM table
ProcessJoinsCalls(T) ==
  IF tU \notin DOMAIN T THEN {}
  ELSE {cProcessJoins(builder.query) :
          builder \in UNION {JoinChains(n) : n \in 1..MaxJoins}}

cExpandWildcards(sel, mainTable, joinedTables) ==
  [m |-> "expandWildcards", sel |-> sel, mainTable |-> mainTable,
   joinedTables |-> joinedTables]

\* the WHERE conditions of the stage: none, leaves that hold on some rows of
\* u and not on others, user predicates, composites of the two
StageConditions ==
  {<<>>}
    \cup {<<c>> : c \in CustomLeaves}
    \cup {<<Simple(column, "=", <<"1">>)>> :
            column \in {<<"n">>, uN, <<"v">>, <<"x">>}}
    \cup {<<Composite(Custom(fn), Simple(uN, "=", <<"1">>), op)>> :
            fn \in {"accept", "reject"}, op \in LogicalOperators}
    \cup {<<Composite(Simple(uN, "=", <<"1">>), Custom(fn), op)>> :
            fn \in {"accept", "fail"}, op \in LogicalOperators}

cWhereStage(q) == [m |-> "whereStage", q |-> q]

\* SELECT u.i, u.n FROM u, alone or joined with o, under each condition
WhereStageCalls(T) ==
  IF ~({tU, tO} \subseteq DOMAIN T) THEN {}
  ELSE {cWhereStage(
          [Select(builder, <<uI, uN>>).query EXCEPT
             !.Where = IF cond = <<>> THEN <<>>
                       ELSE <<[Condition |-> cond]>>]) :
          builder \in {From(NewQuery, tU),
                       JoinClause(From(NewQuery, tU), "InnerJoin",
                                  [table |-> tO, fn |-> "accept"])},
          cond \in StageConditions}

EvalCalls(T) ==
  {cEvaluate(cond, row) : cond \in EvalConditions, row \in Bindings(T)}
    \cup {cEvaluate(cond, row) :
            cond \in ComparisonLeaves, row \in JoinBindings(T)}
    \cup {cEvaluateJoin(cond, row) :
            cond \in JoinConditions, row \in JoinBindings(T)}
    \cup {cExpandWildcards(sel, mainTable, joinedTables) :
            sel \in Selections, mainTable \in DOMAIN T,
            joinedTables \in JoinedTables(T)}
    \cup (IF T = initializeTables THEN OperatorCalls ELSE {})
    \cup {cGetColumnIndex(table, column) :
            table \in DOMAIN T, column \in ColumnNames}
    \cup ProcessJoinsCalls(T)
    \cup WhereStageCalls(T)

InitEval ==
  /\ tables \in Catalogs
  /\ qb = [b \in Builders |-> NewQuery]
  /\ held = {}
  /\ pc = 1
  /\ call = [m |-> "none"]
  /\ ret = NoReturn
  /\ addedBy = [b \in Builders |-> <<>>]
  /\ run = <<>>
  /\ memo = <<>>
  /\ prog \in {<<c>> : c \in EvalCalls(tables)}
  \* only Condition.Evaluate loops over the tables: for the other calls
  \* one order stands for all
  /\ scan \in IF prog[1].m = "Evaluate" THEN Orders(DOMAIN tables)
              ELSE {CHOOSE o \in Orders(DOMAIN tables) : TRUE}

\* the call returns value; scan stays the order its loops used
Applied(c, value) ==
  /\ ret' = [query |-> <<>>, rows |-> <<>>, err |-> <<>>, panic |-> FALSE,
             value |-> value]
  /\ Issue(c)
  /\ UNCHANGED <<tables, qb, held, addedBy, scan, run, memo>>

ApplyEvaluate ==
  \E c \in Choices :
    c.m = "Evaluate"
      /\ Applied(c, Evaluate(c.cond, c.row, createTableDataMap(tables)))

ApplyExpandWildcards ==
  \E c \in Choices :
    c.m = "expandWildcards"
      /\ Applied(c, expandWildcards(c.sel, tables, c.mainTable,
                                    c.joinedTables))

\* GetOperator(text), then Evaluate of the Operator it returns
ApplyOperator ==
  \E c \in Choices :
    c.m = "Operator"
      /\ Applied(c, OpEvaluate(GetOperator(c.text).op[1], c.left, c.right))

ApplyEvaluateJoin ==
  \E c \in Choices :
    c.m = "EvaluateJoin"
      /\ Applied(c, EvaluateJoin(c.cond, c.row, tables))

ApplyGetColumnIndex ==
  \E c \in Choices :
    c.m = "GetColumnIndex"
      /\ Applied(c, GetColumnIndex(tables[c.table], c.column))

\* executeQueryInternal's initializeJoinedRows and processJoins
ApplyProcessJoins ==
  \E c \in Choices :
    c.m = "processJoins"
      /\ Applied(c, processJoins(
                      tables, c.q,
                      initializeJoinedRows(tables[c.q.From[1].Table]), 1))

\* executeQueryInternal from its third statement on: applyWhereCondition
\* on the bindings processJoins leaves, then projectColumns
ApplyWhereStage ==
  \E c \in Choices :
    LET bindings ==
          processJoins(tables, c.q,
                       initializeJoinedRows(tables[c.q.From[1].Table]),
                       1).rows
        projected(w) ==
          [bindings |-> bindings, where |-> w,
           out |-> IF w.err # <<>> THEN <<>>
                   ELSE projectColumns(tables, c.q, w.rows).rows]
    IN c.m = "whereStage"
         /\ Applied(c, projected(applyWhereCondition(tables, c.q, bindings,
                                                     1)))

NextEval ==
  \/ ApplyEvaluate
  \/ ApplyProcessJoins
  \/ ApplyGetColumnIndex
  \/ ApplyEvaluateJoin
  \/ ApplyOperator
  \/ ApplyExpandWildcards
  \/ ApplyWhereStage

SpecEval == InitEval /\ [][NextEval]_vars

(***************************************************************************)
(* What the properties speak of.  The state after a call is the state in   *)
(* which `call` is that call and `ret` what it returned.                    *)
(***************************************************************************)
Executed == call.m = "ExecuteQuery"

\* ExecuteQuery returned rows and no error
Returned == Executed /\ ~ret.panic /\ ret.err = <<>>

\* the Query that was executed
TheQuery == qb[call.b].query

\* the result of a query on its own, through the pipeline every primary and
\* sibling goes through, and its rows after the header
OwnResult(p) == executeQueryInternal(tables, qb, p)
DataRows(p) == Tail(OwnResult(p).rows)

\* the data rows of the siblings i.., in declaration order
RECURSIVE SiblingRows(_, _)
SiblingRows(queries, i) ==
  IF i > Len(queries) THEN <<>>
  ELSE DataRows(queries[i]) \o SiblingRows(queries, i + 1)

\* primary first, then each sibling
UnionInputs == DataRows(call.b) \o SiblingRows(TheQuery.Union[1].Queries, 1)

\* ExecuteQuery returned the rows of a query whose union kind is `kind`
UnionCase(kind) ==
  /\ Returned
  /\ TheQuery.Union # <<>>
  /\ TheQuery.Union[1].UnionKind = kind

\* a cell without its leading and trailing whitespace
Trimmed(s) ==
  IF \A i \in 1..Len(s) : IsSpace(s[i]) THEN <<>>
  ELSE SubSeq(s,
              CHOOSE i \in 1..Len(s) :
                ~IsSpace(s[i]) /\ \A j \in 1..(i - 1) : IsSpace(s[j]),
              CHOOSE i \in 1..Len(s) :
                ~IsSpace(s[i]) /\ \A j \in (i + 1)..Len(s) : IsSpace(s[j]))

\* the trimmed cells of a row joined with '|'
RECURSIVE KeyOf(_)
KeyOf(row) ==
  IF row = <<>> THEN <<>>
  ELSE IF Len(row) = 1 THEN Trimmed(row[1])
  ELSE Trimmed(Head(row)) \o <<"|">> \o KeyOf(Tail(row))

\* rows i.. of `rows` without those whose key is the key of an earlier row
RECURSIVE KeepFirst(_, _)
KeepFirst(rows, i) ==
  IF i > Len(rows) THEN <<>>
  ELSE (IF \E j \in 1..(i - 1) : KeyOf(rows[j]) = KeyOf(rows[i])
        THEN <<>> ELSE <<rows[i]>>) \o KeepFirst(rows, i + 1)

\* two rows with as many cells, equal cell by cell after trimming
SameCells(r1, r2) ==
  Len(r1) = Len(r2) /\ \A k \in 1..Len(r1) : Trimmed(r1[k]) = Trimmed(r2[k])

\* rows i.. of `rows` without those that have the cells of an earlier row
RECURSIVE KeepDistinct(_, _)
KeepDistinct(rows, i) ==
  IF i > Len(rows) THEN <<>>
  ELSE (IF \E j \in 1..(i - 1) : SameCells(rows[j], rows[i])
        THEN <<>> ELSE <<rows[i]>>) \o KeepDistinct(rows, i + 1)

\* how many times row r occurs in rows
Count(rows, r) == Cardinality({i \in 1..Len(rows) : rows[i] = r})

\* s ends with t
IsSuffix(t, s) ==
  Len(t) <= Len(s) /\ SubSeq(s, Len(s) - Len(t) + 1, Len(s)) = t

(***************************************************************************)
(* Joins.                                                                   *)
(***************************************************************************)
\* ExecuteQuery returned the rows of FROM A INNER JOIN T ON P, no WHERE
InnerJoinCase ==
  /\ Returned
  /\ TheQuery.Where = <<>>
  /\ TheQuery.Union = <<>>
  /\ Len(TheQuery.Joins) = 1
  /\ TheQuery.Joins[1].JoinType = "InnerJoin"
  /\ TheQuery.Joins[1].Condition # <<>>

\* the pairs (i, j) of a row of A and a row of T for which P holds
MatchingPairs(A, T, P) ==
  {pr \in (1..Len(tables[A].Rows)) \X (1..Len(tables[T].Rows)) :
     EvaluateJoin(P,
                  MapSet(MapSet(EmptyMap, A, tables[A].Rows[pr[1]]),
                         T, tables[T].Rows[pr[2]]),
                  MapSet(MapSet(EmptyMap, A, tables[A]), T, tables[T])).ok}

\* C1: for FROM A INNER JOIN T ON P without WHERE, the result has, after the
\* header, one data row per pair of a row of A and a row of T for which P
\* holds; when no pair satisfies P it has no data rows.
C1_InnerJoinOneRowPerPair ==
  InnerJoinCase =>
    Len(ret.rows) - 1 =
      Cardinality(MatchingPairs(TheQuery.From[1].Table,
                                TheQuery.Joins[1].Table,
                                TheQuery.Joins[1].Condition[1]))

(***************************************************************************)
(* The builder.                                                             *)
(***************************************************************************)
\* C2: once a builder has recorded an error, the error stays as recorded,
\* every later builder call on it leaves the builder as it was, and Build
\* returns that error and no Query.
C2_ErrorShortCircuits ==
  [][\A b \in Builders :
       qb[b].err # <<>> =>
         /\ qb'[b].err = qb[b].err
         /\ (call'.m \in BuilderMethods \cup {"Build"} /\ call'.b = b)
              => /\ qb'[b] = qb[b]
                 /\ call'.m = "Build"
                      => ret'.query = <<>> /\ ret'.err = qb[b].err]_vars

\* From was called on a builder that had recorded an error, and did nothing
C2_Witness ==
  /\ call.m = "From"
  /\ qb[call.b].err # <<>>
  /\ qb[call.b].query.From = <<>>

\* C3: a Query that Build returned is never changed: not by a later call on
\* a builder, and not by ExecuteQuery.
C3_BuiltQueryImmutable ==
  [][\A p \in held : qb'[p].query = qb[p].query]_vars


(***************************************************************************)
(* Unions.                                                                  *)
(***************************************************************************)
\* C4: under UNION ALL the result is the primary's header row, then the
\* data rows of the primary in order, then those of each sibling in
\* declaration order, nothing dropped: as many data rows as the primary and
\* the siblings have together.
C4_UnionAllConcatenates ==
  UnionCase("UNION ALL") =>
    /\ ret.rows = <<OwnResult(call.b).rows[1]>> \o UnionInputs
    /\ Len(ret.rows) - 1 = Len(UnionInputs)

\* a UNION ALL of inputs that hold a row twice returned every row
C4_Witness ==
  /\ UnionCase("UNION ALL")
  /\ Len(TheQuery.Union[1].Queries) = 2
  /\ \E i, j \in 1..Len(UnionInputs) : i < j /\ UnionInputs[i] = UnionInputs[j]
  /\ Len(ret.rows) - 1 = Len(UnionInputs)

\* C5: under UNION the data rows are the concatenation, primary first and
\* then the siblings in declaration order, without every row whose key
\* (the trimmed cells joined with '|') is the key of an earlier row of the
\* concatenation: the first occurrence is kept, the kept rows stay in order,
\* and duplicates inside the primary's own result are removed too.
C5_UnionKeepsFirstOfEachKey ==
  UnionCase("UNION") =>
    ret.rows = <<OwnResult(call.b).rows[1]>> \o KeepFirst(UnionInputs, 1)

\* a UNION dropped a duplicate inside the primary's result and a duplicate
\* a sibling brought
C5_Witness ==
  /\ UnionCase("UNION")
  /\ \E i, j \in 1..Len(DataRows(call.b)) :
       i < j /\ KeyOf(DataRows(call.b)[i]) = KeyOf(DataRows(call.b)[j])
  /\ \E j \in (Len(DataRows(call.b)) + 1)..Len(UnionInputs) :
       KeyOf(UnionInputs[j]) = KeyOf(UnionInputs[1])
  /\ Len(ret.rows) - 1 < Len(UnionInputs) - 1

Row1  == <<<<"a">>, <<"1">>>>
Row1s == <<<<"a">>, <<"1", " ">>>>

\* both the primary and a sibling produce Row1
FromBoth ==
  /\ Count(DataRows(call.b), Row1) > 0
  /\ Count(SiblingRows(TheQuery.Union[1].Queries, 1), Row1) > 0

\* C6 as stated: under UNION the rows ["a","1 "] and ["a","1"] are distinct
\* and both appear in the result; a row ["a","1"] that the primary and a
\* sibling both produce appears once under UNION and, under UNION ALL, once
\* for each time it is produced.
C6_TrailingSpaceDistinct ==
  /\ UnionCase("UNION") =>
       /\ (Count(UnionInputs, Row1) > 0 /\ Count(UnionInputs, Row1s) > 0)
            => (Count(Tail(ret.rows), Row1) > 0
                  /\ Count(Tail(ret.rows), Row1s) > 0)
       /\ FromBoth => Count(Tail(ret.rows), Row1) = 1
  /\ (UnionCase("UNION ALL") /\ FromBoth)
       => Count(Tail(ret.rows), Row1) = Count(UnionInputs, Row1)

\* the occurrences of ["a","1"] and ["a","1 "] in rows
Row1Occurrences(rows) ==
  SelectSeq(rows, LAMBDA r : r \in {Row1, Row1s})

\* C6: under UNION the rows ["a","1 "] and ["a","1"] are one row: of all
\* their occurrences, primary first and then the siblings, the result has
\* the first and no other.  Under UNION ALL it has every occurrence.
C6_TrailingSpaceCollapses ==
  /\ (UnionCase("UNION") /\ Row1Occurrences(UnionInputs) # <<>>)
       => Row1Occurrences(Tail(ret.rows))
            = <<Row1Occurrences(UnionInputs)[1]>>
  /\ UnionCase("UNION ALL")
       => Row1Occurrences(Tail(ret.rows)) = Row1Occurrences(UnionInputs)

\* a UNION whose primary has ["a","1"] and then ["a","1 "], and whose
\* sibling has ["a","1"] again, returned ["a","1"] once and not ["a","1 "]
C6_Witness ==
  /\ UnionCase("UNION")
  /\ FromBoth
  /\ Count(DataRows(call.b), Row1s) > 0
  /\ Count(Tail(ret.rows), Row1) = 1
  /\ Count(Tail(ret.rows), Row1s) = 0

\* C7: under UNION two rows are collapsed into one only if they have as
\* many cells and are equal cell by cell after trimming; rows that differ in
\* a cell, like ["a|b","c"] and ["a","b|c"], are both kept.
C7_CollapsesOnlyEqualRows ==
  UnionCase("UNION") => Tail(ret.rows) = KeepDistinct(UnionInputs, 1)

\* the last sibling of the executed query and the inputs before it
LastSibling == TheQuery.Union[1].Queries[Len(TheQuery.Union[1].Queries)]
EarlierInputs ==
  DataRows(call.b)
    \o SiblingRows(SubSeq(TheQuery.Union[1].Queries, 1,
                          Len(TheQuery.Union[1].Queries) - 1), 1)

\* C8: the rows of a sibling added with UnionAll are never removed as
\* duplicates, and the rows of a sibling added with Union are deduplicated,
\* whatever the chain.  For the sibling added last: if UnionAll added it,
\* the result ends with all its rows; if Union added it, none of its rows
\* adds a copy of a row that came before it.
C8_KindPerSibling ==
  (Returned /\ TheQuery.Union # <<>>) =>
    /\ addedBy[call.b][Len(addedBy[call.b])] = "UnionAll"
         => IsSuffix(DataRows(LastSibling), Tail(ret.rows))
    /\ addedBy[call.b][Len(addedBy[call.b])] = "Union"
         => \A i \in 1..Len(DataRows(LastSibling)) :
              Count(EarlierInputs, DataRows(LastSibling)[i]) > 0
                => Count(Tail(ret.rows), DataRows(LastSibling)[i])
                     <= Count(EarlierInputs, DataRows(LastSibling)[i])

(***************************************************************************)
(* Errors of ExecuteQuery.                                                  *)
(***************************************************************************)
MismatchError == <<"UNION queries must have the same number of columns">>

\* sibling i executes on its own and has another column count than the
\* primary
Mismatches(i) ==
  /\ OwnResult(TheQuery.Union[1].Queries[i]).err = <<>>
  /\ Len(OwnResult(TheQuery.Union[1].Queries[i]).rows[1])
       # Len(OwnResult(call.b).rows[1])

\* sibling i fails to execute on its own
Fails(i) == OwnResult(TheQuery.Union[1].Queries[i]).err # <<>>

\* ExecuteQuery ran a union whose primary executes and one of whose
\* siblings has another column count
MismatchCase ==
  /\ Executed
  /\ ~ret.panic
  /\ TheQuery.Union # <<>>
  /\ OwnResult(call.b).err = <<>>
  /\ \E i \in 1..Len(TheQuery.Union[1].Queries) : Mismatches(i)

\* C9 as stated: if a sibling's column count differs from the primary's,
\* ExecuteQuery fails with the column-count-mismatch error and returns no
\* rows.
C9_MismatchAlwaysReported ==
  MismatchCase => ret.rows = <<>> /\ ret.err = MismatchError

\* the first sibling that fails or has another column count
FirstFault ==
  CHOOSE i \in 1..Len(TheQuery.Union[1].Queries) :
    /\ Fails(i) \/ Mismatches(i)
    /\ \A j \in 1..(i - 1) : ~Fails(j) /\ ~Mismatches(j)

\* C9: if a sibling's column count differs from the primary's, ExecuteQuery
\* fails and returns no rows, whichever sibling it is; the error is the
\* column-count-mismatch error unless a sibling declared before every
\* mismatching one fails to execute, and then it is that sibling's failure.
C9_FirstFaultReported ==
  MismatchCase =>
    /\ ret.rows = <<>>
    /\ Mismatches(FirstFault) => ret.err = MismatchError
    /\ Fails(FirstFault)
         => ret.err = <<"union query execution failed">>
                        \o OwnResult(TheQuery.Union[1].Queries[FirstFault]).err

\* a union whose first sibling fits and whose second has another column
\* count failed with the mismatch error
C9_Witness ==
  /\ MismatchCase
  /\ Len(TheQuery.Union[1].Queries) = 2
  /\ ~Fails(1) /\ ~Mismatches(1)
  /\ Mismatches(2)
  /\ ret.err = MismatchError
  /\ ret.rows = <<>>

\* C10: whenever ExecuteQuery returns an error the result is nil: no header
\* and no rows come with an error.
C10_ErrorMeansNoRows ==
  (Executed /\ ret.err # <<>>) => ret.rows = <<>>

\* ExecuteQuery failed in a union sibling, after the primary's rows were
\* computed, and returned no rows
C10_Witness ==
  /\ Executed
  /\ ret.err # <<>>
  /\ ret.err[1] = "union query execution failed"
  /\ OwnResult(call.b).err = <<>>
  /\ Len(OwnResult(call.b).rows) > 1
  /\ ret.rows = <<>>


(***************************************************************************)
(* Conditions evaluated on their own (SpecEval).                            *)
(***************************************************************************)
Evaluated == call.m = "Evaluate"
EvaluatedComposite == Evaluated /\ call.cond.kind = "Composite"
\* what the two sides of the composite evaluated last return on its row
LeftResult == Evaluate(call.cond.Left, call.row, createTableDataMap(tables))
RightResult == Evaluate(call.cond.Right, call.row, createTableDataMap(tables))
\* the left side decides the composite: false under AND, true under OR
LeftDecides ==
  \/ call.cond.Operator = "AND" /\ ~LeftResult.ok
  \/ call.cond.Operator = "OR" /\ LeftResult.ok

\* C11: CompositeCondition.Evaluate evaluates Left first; an error of Left is
\* returned (wrapped) and Right is not evaluated; when Left is false under
\* AND or true under OR the result is Left's, without error, and Right is
\* not evaluated, whatever Right would return; otherwise Right is evaluated
\* after Left.
C11_CompositeShortCircuits ==
  EvaluatedComposite =>
    IF LeftResult.err # <<>>
    THEN /\ ret.value.err = <<"left condition error">> \o LeftResult.err
         /\ ret.value.invoked = LeftResult.invoked
    ELSE IF LeftDecides
    THEN /\ ret.value.err = <<>>
         /\ ret.value.ok = LeftResult.ok
         /\ ret.value.invoked = LeftResult.invoked
    ELSE ret.value.invoked = LeftResult.invoked \o RightResult.invoked

\* a composite whose left side decided it while its right side calls a
\* predicate that fails
C11_Witness ==
  /\ EvaluatedComposite
  /\ LeftResult.err = <<>>
  /\ LeftDecides
  /\ RightResult.err # <<>>
  /\ RightResult.invoked # <<>>
  /\ ret.value.err = <<>>

\* a SimpleCondition on a bare column name was evaluated
EvaluatedBare ==
  /\ Evaluated
  /\ call.cond.kind = "Simple"
  /\ Len(SplitDot(call.cond.Column)) = 1
\* the registered tables that have the column
Having(colName) ==
  {n \in DOMAIN tables : GetColumnIndex(tables[n], colName).err = <<>>}
\* the evaluation took the column from table t
ResolvedIn(t) ==
  IF t \notin DOMAIN call.row
  THEN ret.value.err = <<"table %s not found in row data">>
  ELSE LET cell == call.row[t][GetColumnIndex(tables[t],
                                              call.cond.Column).idx]
           applied == OpEvaluate(call.cond.Op, cell, call.cond.Value)
       IN ret.value.ok = applied.ok /\ ret.value.err = applied.err

\* C12: a WHERE SimpleCondition on a bare column name is resolved against
\* all registered tables: when exactly one has the column the evaluation
\* takes the column from it, when two or more have it the evaluation fails
\* as ambiguous, when none has it the evaluation fails as not found,
\* whatever the order in which the tables are scanned.
C12_BareColumnResolvedByCount ==
  EvaluatedBare =>
    LET byCount(having) ==
          IF Cardinality(having) = 1
          THEN ResolvedIn(CHOOSE n \in having : TRUE)
          ELSE IF Cardinality(having) >= 2
          THEN ret.value.err =
                 <<"ambiguous column name: %s exists in multiple tables">>
          ELSE ret.value.err = <<"column not found in any table: %s">>
    IN byCount(Having(call.cond.Column))

(***************************************************************************)
(* Wildcard expansion on its own (SpecEval).                                *)
(***************************************************************************)
\* `SELECT *` was expanded without error
ExpandedStar ==
  /\ call.m = "expandWildcards"
  /\ call.sel.Columns = <<<<"*">>>>
  /\ ret.value.err = <<>>
\* the main table, then the joined tables in the order of the joins
StarTables == <<call.mainTable>> \o call.joinedTables
PairwiseDistinct(seq) ==
  \A i, j \in 1..Len(seq) : i # j => seq[i] # seq[j]
\* n "." h for every header h of the tables seq[i..], table by table, the
\* headers of a table in header order
RECURSIVE QualifiedHeaders(_, _)
QualifiedHeaders(seq, i) ==
  IF i > Len(seq) THEN <<>>
  ELSE [k \in 1..Len(tables[seq[i]].Headers) |->
          seq[i] \o <<".">> \o tables[seq[i]].Headers[k]]
         \o QualifiedHeaders(seq, i + 1)
\* two of the tables have a header of the same name
SharedHeader ==
  \E i, j \in 1..Len(StarTables) :
    /\ i # j
    /\ \E k \in 1..Len(tables[StarTables[i]].Headers) :
       \E l \in 1..Len(tables[StarTables[j]].Headers) :
         tables[StarTables[i]].Headers[k] = tables[StarTables[j]].Headers[l]

\* C13: `*` for a query FROM A with joins on T1..Tn, tables different from
\* each other, expands to A.h for every header h of A in header order, then
\* Ti.h for every header of each joined table in the order of the joins; no
\* name is in the expansion twice (also when a table is joined twice), and a
\* column name two tables share is there once for each table, under that
\* table's qualified name.
C13_StarExpandsTableByTable ==
  ExpandedStar =>
    /\ PairwiseDistinct(ret.value.cols)
    /\ PairwiseDistinct(StarTables) =>
         ret.value.cols = QualifiedHeaders(StarTables, 1)

\* the wildcard expanded over two different tables that share a column name
C13_Witness ==
  /\ ExpandedStar
  /\ PairwiseDistinct(StarTables)
  /\ Len(StarTables) >= 2
  /\ SharedHeader

(***************************************************************************)
(* The shape of a result (SpecExec).                                        *)
(***************************************************************************)
\* the expanded SELECT columns of the query that was executed, and the names
\* of its computed columns
ExpandedColumns ==
  expandWildcards(TheQuery.Select[1], tables, TheQuery.From[1].Table,
                  [i \in 1..Len(TheQuery.Joins) |->
                     TheQuery.Joins[i].Table]).cols
ComputedColumns == TheQuery.Select[1].CustomColumns
ComputedNames ==
  [i \in 1..Len(ComputedColumns) |-> ComputedColumns[i].Name]

\* C14: a result ExecuteQuery returns without error has at least one row;
\* its first row is the header, the expanded SELECT columns followed by the
\* names of the computed columns in declaration order; every row after it,
\* rows merged from union siblings included, has as many cells as the
\* header; and in a row of the query's own the computed values come after
\* the values of the regular columns, in declaration order.
C14_HeaderThenRowsOfItsWidth ==
  Returned =>
    /\ Len(ret.rows) >= 1
    /\ ret.rows[1] = ExpandedColumns \o ComputedNames
    /\ \A i \in 2..Len(ret.rows) : Len(ret.rows[i]) = Len(ret.rows[1])
    /\ TheQuery.Union = <<>> =>
         \A i \in 2..Len(ret.rows) :
           \A j \in 1..Len(ComputedColumns) :
             ret.rows[i][Len(ExpandedColumns) + j] =
               CallColumnFunc(ComputedColumns[j].Func, EmptyMap, tables).val

\* a result with a data row of a query with a regular and a computed column
C14_Witness ==
  /\ Returned
  /\ Len(ret.rows) >= 2
  /\ ExpandedColumns # <<>>
  /\ ComputedColumns # <<>>

(***************************************************************************)
(* Operators on their own (SpecEval).                                       *)
(***************************************************************************)
\* LIKE as SQL reads a pattern: `%` stands for any sequence of characters,
\* `_` for one character, every other character for itself
RECURSIVE LikeMatches(_, _)
LikeMatches(pattern, value) ==
  IF pattern = <<>> THEN value = <<>>
  ELSE IF Head(pattern) = "%"
  THEN \E k \in 0..Len(value) :
         LikeMatches(Tail(pattern), SubSeq(value, k + 1, Len(value)))
  ELSE /\ value # <<>>
       /\ Head(pattern) = "_" \/ Head(pattern) = Head(value)
       /\ LikeMatches(Tail(pattern), Tail(value))

AppliedLike == call.m = "Operator" /\ call.text = "LIKE"

\* C15: LikeOperator.Evaluate(value, pattern) is true exactly when the whole
\* of value matches pattern with `%` read as any sequence of characters, `_`
\* as one character and every other character as itself.
C15_LikeReadsOnlyPercentAndUnderscore ==
  AppliedLike =>
    /\ ret.value.err = <<>>
    /\ ret.value.ok = LikeMatches(call.right, call.left)

\* l comes before r in lexicographic order: r continues l, or at the first
\* position where they differ l has the smaller byte
LexLess(l, r) ==
  \E k \in 1..Len(r) :
    /\ k <= Len(l) + 1
    /\ SubSeq(l, 1, k - 1) = SubSeq(r, 1, k - 1)
    /\ k = Len(l) + 1 \/ Ord(l[k]) < Ord(r[k])
\* what a comparison operator says of two strings
Compared(sym, l, r) ==
  CASE sym = "="  -> l = r
    [] sym = "!=" -> l # r
    [] sym = "<"  -> LexLess(l, r)
    [] sym = ">"  -> LexLess(r, l)
    [] sym = ">=" -> ~LexLess(l, r)
    [] sym = "<=" -> ~LexLess(r, l)
Holds(sym, l, r) == ComparisonEvaluate(sym, l, r).ok

AppliedComparison ==
  call.m = "Operator" /\ call.text \in ComparisonOperators
\* a WHERE comparison on a qualified column, evaluated without error
EvaluatedWhereComparison ==
  /\ Evaluated
  /\ call.cond.kind = "Simple"
  /\ call.cond.Op.kind = "Comparison"
  /\ Len(SplitDot(call.cond.Column)) = 2
  /\ ret.value.err = <<>>
WhereCell ==
  LET parts == SplitDot(call.cond.Column)
  IN call.row[parts[1]][GetColumnIndex(tables[parts[1]], parts[2]).idx]
\* an ON comparison evaluated without error
EvaluatedJoinComparison ==
  /\ call.m = "EvaluateJoin"
  /\ call.cond.Op.kind = "Comparison"
  /\ ret.value.err = <<>>
LeftCell ==
  call.row[call.cond.LeftTable][
    GetColumnIndex(tables[call.cond.LeftTable], call.cond.LeftCol).idx]
RightCell ==
  call.row[call.cond.RightTable][
    GetColumnIndex(tables[call.cond.RightTable], call.cond.RightCol).idx]

C16_OnWitness ==
  /\ EvaluatedJoinComparison
  /\ call.cond.Op.sym = ">"
  /\ LeftCell = <<"1", "0">>
  /\ RightCell = <<"9">>
  /\ ~ret.value.ok
C16_WhereWitness ==
  /\ EvaluatedWhereComparison
  /\ call.cond.Op.sym = ">"
  /\ WhereCell = <<"1", "0">>
  /\ call.cond.Value = <<"9">>
  /\ ~ret.value.ok

(***************************************************************************)
(* Column lookup on its own (SpecEval).                                     *)
(***************************************************************************)
LookedUp == call.m = "GetColumnIndex"
\* the positions of the headers of the table that the name is a casing of
CasingOf(t, column) ==
  {i \in 1..Len(t.Headers) : ToLower(t.Headers[i]) = ToLower(column)}

\* C17: on a Table built by a loader, GetColumnIndex of the header at
\* position i, in any letter casing, returns i, so that no two headers
\* resolve to the same index; a name that is no header returns an error.
C17_IndexBijectiveOnHeaders ==
  LookedUp =>
    LET looked(positions) ==
          IF positions = {} THEN ret.value.err # <<>>
          ELSE /\ ret.value.err = <<>>
               /\ \A i \in positions : ret.value.idx = i
    IN looked(CasingOf(tables[call.table], call.column))

(***************************************************************************)
(* Unset user functions (SpecExec).                                         *)
(***************************************************************************)
\* a nil function is in the query: as its WHERE predicate, as the ON
\* predicate of a join, as the function of a computed column
HasNilFunction(q) ==
  \/ /\ q.Where # <<>>
     /\ q.Where[1].Condition # <<>>
     /\ q.Where[1].Condition[1].kind = "Custom"
     /\ q.Where[1].Condition[1].fn = "nil"
  \/ \E i \in 1..Len(q.Joins) :
       /\ q.Joins[i].Condition # <<>>
       /\ q.Joins[i].Condition[1].kind = "CustomJoin"
       /\ q.Joins[i].Condition[1].fn = "nil"
  \/ /\ q.Select # <<>>
     /\ \E i \in 1..Len(q.Select[1].CustomColumns) :
          q.Select[1].CustomColumns[i].Func = "nil"

\* C18: a nil user function handed to WhereFunc, OnFunc or SelectCustom
\* makes Build return an error, so that no Query Build returned holds a nil
\* function and ExecuteQuery never calls one (and crashes).
C18_NilFunctionRejectedByBuild ==
  /\ call.m = "Build" /\ ret.query # <<>> => ~HasNilFunction(qb[call.b].query)
  /\ Executed /\ HasNilFunction(TheQuery) => ~ret.panic

(***************************************************************************)
(* Join chains on their own (SpecEval).                                     *)
(***************************************************************************)
\* processJoins returned without error
ChainProcessed == call.m = "processJoins" /\ ret.value.err = <<>>
\* the bindings before the first join and after the last
BindingsBefore == initializeJoinedRows(tables[call.q.From[1].Table])
BindingsAfter ==
  SelectSeq(ret.value.rows, LAMBDA jr : ~jr.isFiltered)
\* the tables of the chain are different from each other and from the FROM
\* table
DistinctTables ==
  PairwiseDistinct(<<call.q.From[1].Table>>
                     \o [i \in 1..Len(call.q.Joins) |-> call.q.Joins[i].Table])
\* the predicate of join i holds on the rows of binding jr
PredicateHolds(i, jr) ==
  \/ call.q.Joins[i].Condition = <<>>
  \/ EvaluateJoin(call.q.Joins[i].Condition[1], createCombinedRow(jr),
                  tables).ok

\* C19: after a chain of INNER joins T1..Tn is processed, every binding that
\* is not excluded holds a row for each of T1..Tn and satisfies every join
\* predicate, so that a FROM row that matches no row of some Ti is in no
\* binding that reaches the output, also when no binding matches in a step.
C19_InnerChainKeepsOnlyMatches ==
  (/\ ChainProcessed
   /\ DistinctTables
   /\ \A i \in 1..Len(call.q.Joins) : call.q.Joins[i].JoinType = "InnerJoin")
    => \A k \in 1..Len(BindingsAfter) :
       \A i \in 1..Len(call.q.Joins) :
         /\ call.q.Joins[i].Table \in DOMAIN BindingsAfter[k].joinedRows
         /\ PredicateHolds(i, BindingsAfter[k])

\* a LEFT or RIGHT join as the only join of a query was processed
OuterJoinProcessed ==
  /\ ChainProcessed
  /\ Len(call.q.Joins) = 1
  /\ call.q.Joins[1].JoinType \in {"LeftJoin", "RightJoin"}
\* binding jr matches no row of the table joined by the first join
MatchesNothing(jr) ==
  \A k \in 1..Len(tables[call.q.Joins[1].Table].Rows) :
    ~evaluateJoinCondition(tables, call.q.Joins[1], jr,
                           tables[call.q.Joins[1].Table].Rows[k],
                           tables[call.q.Joins[1].Table]).ok
\* some binding matches a row of it
SomeMatch == \E i \in 1..Len(BindingsBefore) : ~MatchesNothing(BindingsBefore[i])

\* C20: a binding that matches no row of the table of a LEFT or RIGHT join
\* is kept as it is, not excluded and without a row for that table, whether
\* or not other bindings matched in the same step.
C20_OuterJoinKeepsUnmatched ==
  OuterJoinProcessed =>
    \A i \in 1..Len(BindingsBefore) :
      MatchesNothing(BindingsBefore[i]) =>
        \E k \in 1..Len(BindingsAfter) : BindingsAfter[k] = BindingsBefore[i]

(***************************************************************************)
(* The WHERE stage on its own (SpecEval).                                  *)
(***************************************************************************)
WhereStaged == call.m = "whereStage"
\* the bindings the stage received, none of them excluded
StageBindings == ret.value.bindings
\* what the WHERE condition returns on binding i: its combined row, and the
\* whole catalog
StageResult(i) ==
  Evaluate(call.q.Where[1].Condition[1],
           createCombinedRow(StageBindings[i]), createTableDataMap(tables))
\* the bindings on which the condition fails
StageErrors ==
  {i \in 1..Len(StageBindings) : StageResult(i).err # <<>>}
FirstStageError == CHOOSE i \in StageErrors : \A j \in StageErrors : i <= j
\* the user predicates called by one evaluation on each of bindings 1..n, in
\* order
RECURSIVE Evaluations(_)
Evaluations(n) ==
  IF n = 0 THEN <<>> ELSE Evaluations(n - 1) \o StageResult(n).invoked
\* the rows of SELECT u.i, u.n for those of bindings 1..n on which the
\* condition is true, in order
RECURSIVE RowsWhereTrue(_)
RowsWhereTrue(n) ==
  IF n = 0 THEN <<>>
  ELSE RowsWhereTrue(n - 1)
         \o (IF StageResult(n).ok THEN <<StageBindings[n].mainRow>>
             ELSE <<>>)

\* C21: the WHERE stage evaluates the condition once on each binding that is
\* not excluded, in order, on the binding's combined row and the whole
\* catalog; it stops at the first error; otherwise it excludes exactly the
\* bindings on which the condition is false, and the data rows of the output
\* are the bindings on which it is true, in their order.  Without a WHERE
\* nothing is evaluated and nothing is excluded.
C21_WhereKeepsExactlyTheTrueBindings ==
  WhereStaged =>
    /\ \A i \in 1..Len(StageBindings) : ~StageBindings[i].isFiltered
    /\ call.q.Where = <<>> =>
         /\ ret.value.where =
              [rows |-> StageBindings, err |-> <<>>, invoked |-> <<>>]
         /\ Tail(ret.value.out) =
              [i \in 1..Len(StageBindings) |-> StageBindings[i].mainRow]
    /\ call.q.Where # <<>> /\ StageErrors = {} =>
         /\ ret.value.where.err = <<>>
         /\ ret.value.where.invoked = Evaluations(Len(StageBindings))
         /\ ret.value.where.rows =
              [i \in 1..Len(StageBindings) |->
                 [StageBindings[i] EXCEPT !.isFiltered = ~StageResult(i).ok]]
         /\ Tail(ret.value.out) = RowsWhereTrue(Len(StageBindings))
    /\ call.q.Where # <<>> /\ StageErrors # {} =>
         /\ ret.value.where.err =
              <<"where condition evaluation failed">>
                \o StageResult(FirstStageError).err
         /\ ret.value.where.invoked = Evaluations(FirstStageError)
         /\ ret.value.out = <<>>

\* a condition that calls a user predicate is true on one binding and false
\* on another: the output has the first and not the second
C21_Witness ==
  /\ WhereStaged
  /\ call.q.Where # <<>>
  /\ StageErrors = {}
  /\ Len(ret.value.where.invoked) = Len(StageBindings)
  /\ \E i, j \in 1..Len(StageBindings) : StageResult(i).ok /\ ~StageResult(j).ok
  /\ Len(ret.value.out) > 1
  /\ Len(ret.value.out) < Len(StageBindings) + 1

(***************************************************************************)
(* Bare SELECT columns (SpecExec).                                         *)
(***************************************************************************)
\* a query without joins, WHERE, union and computed columns that selects
\* one bare column from a registered table with rows was executed
SelectedBare ==
  /\ Executed
  /\ TheQuery.Joins = <<>> /\ TheQuery.Where = <<>> /\ TheQuery.Union = <<>>
  /\ TheQuery.From # <<>> /\ TheQuery.Select # <<>>
  /\ TheQuery.From[1].Table \in DOMAIN tables
  /\ tables[TheQuery.From[1].Table].Rows # <<>>
  /\ TheQuery.Select[1].CustomColumns = <<>>
  /\ Len(TheQuery.Select[1].Columns) = 1
  /\ Len(SplitDot(TheQuery.Select[1].Columns[1])) = 1
  /\ TheQuery.Select[1].Columns[1] # <<"*">>
BareColumn == TheQuery.Select[1].Columns[1]
\* the tables of the query: the FROM table and the joined tables
QueryTables ==
  {TheQuery.From[1].Table}
    \cup {TheQuery.Joins[i].Table : i \in 1..Len(TheQuery.Joins)}

\* C22: a bare SELECT column is resolved among the tables of the query only:
\* when none of them has it the execution fails as column not found, when
\* more than one has it it fails as ambiguous, whatever other tables are
\* registered.
C22_BareSelectResolvedInQueryTables ==
  SelectedBare =>
    LET byCount(having) ==
          IF having = {}
          THEN ret.err = <<"failed to get column value",
                           "column not found in any table: %s">>
          ELSE IF Cardinality(having) >= 2
          THEN ret.err =
                 <<"failed to get column value",
                   "ambiguous column name: %s exists in multiple tables">>
          ELSE ret.err = <<>>
    IN byCount(Having(BareColumn) \cap QueryTables)

(***************************************************************************)
(* Build and the FROM clause (Spec).                                       *)
(***************************************************************************)
Built == call.m = "Build"
\* the error chain err has the message
Carries(err, message) == \E i \in 1..Len(err) : err[i] = message

\* C23: Build returns an error and no Query when its builder has no FROM
\* table; a Query that was built has a FROM table; ExecuteQuery never fails
\* with "FROM clause is required".
C23_BuiltQueryHasFrom ==
  /\ Built /\ qb[call.b].query.From = <<>> =>
       ret.err # <<>> /\ ret.query = <<>>
  /\ \A p \in held : qb[p].query.From # <<>>
  /\ Executed => ~Carries(ret.err, "FROM clause is required")

(***************************************************************************)
(* And and Or (SpecExec).                                                  *)
(***************************************************************************)
\* the step is a call of qb.And(other) or qb.Or(other) on a builder without
\* a recorded error
Composing ==
  /\ call' # call \/ pc' # pc
  /\ call'.m \in {"And", "Or"}
  /\ qb[call'.b].err = <<>>
\* other is a builder with a WHERE, and so is qb
Composable ==
  /\ call'.other # <<>>
  /\ qb[call'.other[1]].query.Where # <<>>
  /\ qb[call'.b].query.Where # <<>>
LogicalText == IF call'.m = "And" THEN "AND" ELSE "OR"

\* C24: qb.And(other) / qb.Or(other) on builders that both have a WHERE
\* replaces the condition of qb's WHERE by the composite (qb's condition,
\* other's condition, AND / OR) and changes nothing else; when qb has no
\* WHERE, or other is nil or has no WHERE, it records an error on qb, changes
\* nothing else, and Build on qb fails.
C24_AndOrComposeWhere ==
  [][Composing =>
       /\ \A p \in Builders \ {call'.b} : qb'[p] = qb[p]
       /\ tables' = tables /\ held' = held
       /\ Composable =>
            qb'[call'.b] =
              [qb[call'.b] EXCEPT !.query.Where =
                 <<[Condition |->
                      <<[kind |-> "Composite",
                         Left |-> qb[call'.b].query.Where[1].Condition[1],
                         Right |->
                           qb[call'.other[1]].query.Where[1].Condition[1],
                         Operator |-> LogicalText]>>]>>]
       /\ ~Composable =>
            /\ qb'[call'.b].err # <<>>
            /\ qb'[call'.b].query = qb[call'.b].query
            /\ Build(qb', call'.b).err # <<>>
            /\ Build(qb', call'.b).query = <<>>]_vars

\* Where(a).And(b).Or(c) left the builder with ((a AND b) OR c)
C24_Witness ==
  /\ call.m = "Or"
  /\ qb["a"].err = <<>>
  /\ qb["a"].query.Where # <<>>
  /\ qb["a"].query.Where[1].Condition[1] =
       Composite(Composite(Simple(<<"n">>, "=", <<"1">>),
                           Simple(<<"i">>, "=", <<"a">>), "AND"),
                 Simple(<<"i">>, "=", <<"a">>), "OR")

(***************************************************************************)
(* CreateTable and the registry (SpecExec).                                *)
(***************************************************************************)
\* the step is a call of CreateTable
Registering ==
  /\ call' # call \/ pc' # pc
  /\ call'.m = "CreateTable"

\* C25: CreateTable is all-or-nothing on the registry: when the load fails
\* it returns an error and the registry is as before, the table registered
\* under the alias before included; when it succeeds the alias is bound to
\* the table loaded from the file and every other entry is as before.
C25_CreateTableAllOrNothing ==
  [][Registering =>
       /\ ret'.err # <<>> => tables' = tables
       /\ ret'.err = <<>> =>
            /\ DOMAIN tables' = DOMAIN tables \cup {call'.alias}
            /\ \A n \in DOMAIN tables \ {call'.alias} : tables'[n] = tables[n]
            /\ <<tables'[call'.alias]>> =
                 NewTableFromCSV(call'.alias, call'.filepath).table
       /\ ret'.err = <<>> <=>
            NewTableFromCSV(call'.alias, call'.filepath).err = <<>>]_vars

\* a load failed for an alias that was registered: its table is still there
C25_Witness ==
  /\ call.m = "CreateTable"
  /\ ret.err # <<>>
  /\ call.alias \in DOMAIN tables
  /\ tables = initializeTables

\* a load succeeded for an alias that was registered: the alias has the new
\* table, the other alias its old one
C25_ReplacedWitness ==
  /\ call.m = "CreateTable"
  /\ ret.err = <<>>
  /\ call.alias \in DOMAIN initializeTables
  /\ tables[call.alias] # initializeTables[call.alias]
  /\ tables[tU] = initializeTables[tU]

(***************************************************************************)
(* ExecuteQuery step by step, from several goroutines (SpecConc).          *)
(*                                                                         *)
(* A client builds its queries and then starts one goroutine per call of   *)
(* ExecuteQuery on the shared Engine, without synchronisation between      *)
(* them.  A goroutine has a call stack of frames; a frame is a call of     *)
(* ExecuteQuery or of executeQueryInternal on the Query *q, `at` the       *)
(* position inside the function, `got` what the call it made last          *)
(* returned, and the locals of the union handling: results, the loop       *)
(* index i and st, the finalResults and seen of mergeUnionResults.         *)
(* A goroutine records the fields <<p, name>> of the Query objects it       *)
(* reads and writes.                                                        *)
(***************************************************************************)
Goroutines == {"g1", "g2"}

\* the deepest call stack a goroutine is followed to
MaxDepth == 3

NoResult == [rows |-> <<>>, err |-> <<>>, panic |-> FALSE]

Frame(fn, q) ==
  [fn |-> fn, q |-> q, at |-> "start", i |-> 0, results |-> <<>>,
   st |-> [final |-> <<>>, seen |-> {}], got |-> NoResult]

\* the execution of a sibling entering ExecuteQuery, union handling included
siblingCallRecursive(unionQuery) == Frame("ExecuteQuery", unionQuery)

\* e.executeQueryInternal(unionQuery) of handleUnionOperation and
\* mergeUnionResults: the frame of the call
siblingCall(unionQuery) == Frame("executeQueryInternal", unionQuery)

\* the heaps a client has built before it starts the goroutines: a query
\* with and without SELECT; a union with a sibling, with itself, with a
\* sibling that has a union of its own, with a sibling of another width and
\* with a sibling on a table that is not registered
Heaps ==
  LET fresh == [b \in Builders |-> NewQuery]
      set(H, b, after) == [H EXCEPT ![b] = after]
      from(H, b, t) == set(H, b, From(H[b], t))
      selected(H, b, cols) == set(H, b, Select(H[b], cols))
      union(H, b, o) == set(H, b, Union(H, b, <<o>>))
      unionAll(H, b, o) == set(H, b, UnionAll(H, b, <<o>>))
      plain == from(fresh, "a", tU)
      pair == from(plain, "b", tO)
  IN {plain,
      selected(plain, "a", <<uN>>),
      union(pair, "a", "b"),
      unionAll(plain, "a", "a"),
      union(union(from(pair, "c", tU), "b", "c"), "a", "b"),
      unionAll(selected(pair, "a", <<uN>>), "a", "b"),
      union(from(plain, "b", tX), "a", "b")}

\* the Query objects of a heap that Build returns
Buildable(H) == {b \in Builders : H[b].query.From # <<>> /\ Build(H, b).err = <<>>}

\* the SelectComponent that a goroutine reads before its Columns are stored
ZeroSelect == [Columns |-> <<>>, CustomColumns |-> <<>>]

\* the Query values executeQueryInternal can go on with after validateQuery:
\* <<p, q>>, q the Query *p as validateQuery leaves it, or that with the
\* zero SelectComponent
Validated(T, H) ==
  LET ok == {p \in Builders : validateQuery(T, H[p].query).err = <<>>}
  IN {<<p, validateQuery(T, H[p].query).q>> : p \in ok}
       \cup {<<p, [validateQuery(T, H[p].query).q EXCEPT
                      !.Select = <<ZeroSelect>>]>> : p \in ok}

\* executeQueryInternal on each of them: [rows, err, panic]
Executions(T, H) ==
  [v \in Validated(T, H) |->
     LET returned(r) == [rows |-> r.rows, err |-> r.err, panic |-> r.panic]
     IN returned(executeQueryInternal(T, [H EXCEPT ![v[1]].query = v[2]],
                                      v[1]))]

InitConc ==
  /\ tables = initializeTables
  /\ qb \in Heaps
  /\ held = Buildable(qb)
  /\ prog = <<>>
  /\ pc = 1
  /\ call = [m |-> "none"]
  /\ ret = NoReturn
  /\ addedBy = [b \in Builders |-> <<>>]
  /\ scan = CHOOSE o \in Orders(DOMAIN tables) : TRUE
  /\ memo = Executions(tables, qb)
  /\ run \in {[g \in Goroutines |->
                 [q |-> ps[g], stack |-> <<Frame("ExecuteQuery", ps[g])>>,
                  result |-> <<>>, reads |-> {}, writes |-> {}]] :
                ps \in [Goroutines -> held]}

Top(g) == run[g].stack[Len(run[g].stack)]
Running(g) == run[g].stack # <<>>
In(g, fn, at) == Running(g) /\ Top(g).fn = fn /\ Top(g).at = at

\* goroutine g goes on: its top frame becomes frame, it has read and written
\* the fields
Continue(g, frame, reads, writes) ==
  run' = [run EXCEPT ![g].stack[Len(run[g].stack)] = frame,
                     ![g].reads = @ \cup reads,
                     ![g].writes = @ \cup writes]

\* the top frame of g calls: it waits at `at` for the frame it pushes
Push(g, at, frame) ==
  /\ Len(run[g].stack) < MaxDepth
  /\ run' = [run EXCEPT ![g].stack =
               Append([@ EXCEPT ![Len(@)].at = at], frame)]

\* the top frame of g returns value, to its caller or as the goroutine's
\* result
Return(g, value, reads, writes) ==
  LET n == Len(run[g].stack)
      popped == SubSeq(run[g].stack, 1, n - 1)
  IN run' = [run EXCEPT
               ![g].stack = IF n = 1 THEN <<>>
                            ELSE [popped EXCEPT ![n - 1].got = value],
               ![g].result = IF n = 1 THEN <<value>> ELSE @,
               ![g].reads = @ \cup reads,
               ![g].writes = @ \cup writes]

Elsewhere ==
  UNCHANGED <<tables, held, prog, pc, call, ret, addedBy, scan, memo>>

\* another goroutine has written the field and g has not: g's reads of it
\* are not ordered with the write
Raced(g, field) ==
  /\ field \notin run[g].writes
  /\ \E h \in Goroutines \ {g} : field \in run[h].writes

\* ExecuteQuery's call of executeQueryInternal(q)
Call(g) ==
  /\ In(g, "ExecuteQuery", "start")
  /\ Push(g, "primary", Frame("executeQueryInternal", Top(g).q))
  /\ UNCHANGED qb /\ Elsewhere

\* executeQueryInternal's validateQuery.  The read of q.Select that races
\* with a write may still find nil; the goroutine then writes the default
\* SELECT itself.
Validate(g) ==
  /\ In(g, "executeQueryInternal", "start")
  /\ \E stale \in {FALSE} \cup
                  (IF Raced(g, <<Top(g).q, "Select">>) THEN {TRUE} ELSE {}) :
       LET p == Top(g).q
           seen == IF stale THEN [qb[p].query EXCEPT !.Select = <<>>]
                   ELSE qb[p].query
           v == validateQuery(tables, seen)
       IN IF v.err # <<>>
          THEN /\ Return(g, [NoResult EXCEPT !.err = v.err],
                         {<<p, "From">>}, {})
               /\ UNCHANGED qb
          ELSE /\ Continue(g, [Top(g) EXCEPT !.at = "validated"],
                           {<<p, "From">>, <<p, "Select">>},
                           IF seen.Select = <<>> THEN {<<p, "Select">>}
                           ELSE {})
               /\ qb' = [qb EXCEPT ![p].query = v.q]
  /\ Elsewhere

\* the rest of executeQueryInternal: the joins, the WHERE and the
\* projection.  A SelectComponent that another goroutine has stored without
\* synchronisation may be read before its Columns are: as the zero value.
Pipeline(g) ==
  /\ In(g, "executeQueryInternal", "validated")
  /\ \E torn \in {FALSE} \cup
                 (IF Raced(g, <<Top(g).q, "Select">>) THEN {TRUE} ELSE {}) :
       LET p == Top(g).q
           seen == IF torn
                   THEN [qb[p].query EXCEPT !.Select = <<ZeroSelect>>]
                   ELSE qb[p].query
       IN Return(g, memo[<<p, seen>>],
                 {<<p, "From">>, <<p, "Joins">>, <<p, "Where">>,
                  <<p, "Select">>}, {})
  /\ UNCHANGED qb /\ Elsewhere

\* ExecuteQuery after executeQueryInternal(q) has returned, and the start of
\* handleUnionOperation
Primary(g) ==
  /\ In(g, "ExecuteQuery", "primary")
  /\ LET p == Top(g).q
         got == Top(g).got
     IN IF got.panic THEN Return(g, got, {}, {})
        ELSE IF got.err # <<>>
        THEN Return(g, [NoResult EXCEPT
                          !.err = <<"query execution failed">> \o got.err],
                    {}, {})
        ELSE IF qb[p].query.Union = <<>> \/ Len(got.rows) = 0
        THEN Return(g, got, {<<p, "Union">>}, {})
        ELSE Continue(g, [Top(g) EXCEPT !.at = "check", !.i = 1,
                                        !.results = got.rows],
                      {<<p, "Union">>}, {})
  /\ UNCHANGED qb /\ Elsewhere

\* handleUnionOperation's loop: the call for the next sibling, or the start
\* of mergeUnionResults
Check(g) ==
  /\ In(g, "ExecuteQuery", "check")
  /\ LET u == qb[Top(g).q].query.Union[1]
     IN IF Top(g).i <= Len(u.Queries)
        THEN Push(g, "checking", siblingCall(u.Queries[Top(g).i]))
        ELSE Continue(g,
                      [Top(g) EXCEPT
                         !.at = "merge", !.i = 1,
                         !.st = processRows(u.UnionKind,
                                            [final |-> <<Top(g).results[1]>>,
                                             seen |-> {}],
                                            Tail(Top(g).results))],
                      {}, {})
  /\ UNCHANGED qb /\ Elsewhere

\* handleUnionOperation's loop after the sibling has returned
Checked(g) ==
  /\ In(g, "ExecuteQuery", "checking")
  /\ LET got == Top(g).got
     IN IF got.panic THEN Return(g, got, {}, {})
        ELSE IF got.err # <<>>
        THEN Return(g, [NoResult EXCEPT
                          !.err = <<"union query execution failed">>
                                    \o got.err],
                    {}, {})
        ELSE IF Len(got.rows) > 0
                  /\ Len(got.rows[1]) # Len(Top(g).results[1])
        THEN Return(g,
                    [NoResult EXCEPT
                       !.err = <<"UNION queries must have the same number of columns">>],
                    {}, {})
        ELSE Continue(g, [Top(g) EXCEPT !.at = "check", !.i = @ + 1], {}, {})
  /\ UNCHANGED qb /\ Elsewhere

\* mergeUnionResults' loop: the call for the next sibling, or the return of
\* finalResults
Merge(g) ==
  /\ In(g, "ExecuteQuery", "merge")
  /\ LET u == qb[Top(g).q].query.Union[1]
     IN IF Top(g).i <= Len(u.Queries)
        THEN Push(g, "merging", siblingCall(u.Queries[Top(g).i]))
        ELSE Return(g, [NoResult EXCEPT !.rows = Top(g).st.final], {}, {})
  /\ UNCHANGED qb /\ Elsewhere

\* mergeUnionResults' loop after the sibling has returned
Merged(g) ==
  /\ In(g, "ExecuteQuery", "merging")
  /\ LET u == qb[Top(g).q].query.Union[1]
         got == Top(g).got
     IN IF got.panic \/ got.err # <<>>
        THEN Return(g, [got EXCEPT !.rows = <<>>], {}, {})
        ELSE Continue(g,
                      [Top(g) EXCEPT
                         !.at = "merge", !.i = @ + 1,
                         !.st = processRows(u.UnionKind, @, Tail(got.rows))],
                      {}, {})
  /\ UNCHANGED qb /\ Elsewhere

\* one step of goroutine g
Go(g) ==
  \/ Call(g) \/ Validate(g) \/ Pipeline(g) \/ Primary(g)
  \/ Check(g) \/ Checked(g) \/ Merge(g) \/ Merged(g)

GoCall == \E g \in Goroutines : Call(g)
GoValidate == \E g \in Goroutines : Validate(g)
GoPipeline == \E g \in Goroutines : Pipeline(g)
GoPrimary == \E g \in Goroutines : Primary(g)
GoCheck == \E g \in Goroutines : Check(g)
GoChecked == \E g \in Goroutines : Checked(g)
GoMerge == \E g \in Goroutines : Merge(g)
GoMerged == \E g \in Goroutines : Merged(g)

NextConc ==
  \/ GoCall
  \/ GoValidate
  \/ GoPipeline
  \/ GoPrimary
  \/ GoCheck
  \/ GoChecked
  \/ GoMerge
  \/ GoMerged

SpecConc == InitConc /\ [][NextConc]_vars

\* the scheduler runs every goroutine that can run
SpecConcFair == SpecConc /\ \A g \in Goroutines : WF_vars(Go(g))

(***************************************************************************)
(* Concurrent executions (SpecConc).                                       *)
(***************************************************************************)
Done(g) == run[g].result # <<>>
\* what ExecuteQuery returns for the call of g when nothing else runs
Alone(g) ==
  LET returned(r) == [rows |-> r.rows, err |-> r.err, panic |-> r.panic]
  IN returned(ExecuteQuery(tables, qb, run[g].q))
\* no goroutine has written a field that another has read or written
RaceFree ==
  \A g, h \in Goroutines :
    g # h => run[g].writes \cap (run[h].reads \cup run[h].writes) = {}
SameAsAlone == \A g \in Goroutines : Done(g) => run[g].result[1] = Alone(g)

\* C26: concurrent ExecuteQuery calls on one Engine are free of data races:
\* no execution writes a field of a Query that another execution reads or
\* writes, and every call returns what it returns when it runs alone.
C26_ConcurrentExecutionsRaceFree == RaceFree /\ SameAsAlone

(***************************************************************************)
(* Termination (SpecConcFair).                                             *)
(***************************************************************************)
\* the siblings of the Query *p
Siblings(p) ==
  IF qb[p].query.Union = <<>> THEN {}
  ELSE {qb[p].query.Union[1].Queries[i] :
          i \in 1..Len(qb[p].query.Union[1].Queries)}

\* C27: every call of ExecuteQuery returns, the calls on a query that is
\* unioned with itself and on a query whose sibling has a union of its own
\* included: a sibling is executed without its union, so that a call never
\* has more than ExecuteQuery and one executeQueryInternal on its stack.
C27_ExecutionTerminates ==
  /\ [](\A g \in Goroutines : Len(run[g].stack) <= 2)
  /\ <>(\A g \in Goroutines : Done(g))

\* a call on a query that is its own sibling has returned rows
C27_Witness ==
  \E g \in Goroutines :
    /\ Done(g)
    /\ run[g].q \in Siblings(run[g].q)
    /\ run[g].result[1].err = <<>>
    /\ Len(run[g].result[1].rows) > 1

\* a call on a query whose sibling has a sibling has returned rows
C27_NestedWitness ==
  \E g \in Goroutines :
    /\ Done(g)
    /\ \E s \in Siblings(run[g].q) : Siblings(s) # {}
    /\ run[g].result[1].err = <<>>
    /\ Len(run[g].result[1].rows) > 1

(***************************************************************************)
(* Unions of unions (SpecExec).                                            *)
(***************************************************************************)
\* the heap without the unions of the queries other than p
WithoutOtherUnions(p) ==
  [b \in Builders |->
     IF b = p THEN qb[b] ELSE [qb[b] EXCEPT !.query.Union = <<>>]]
\* a sibling of the executed query, not the query itself, has siblings
NestedUnion ==
  /\ Executed
  /\ TheQuery.Union # <<>>
  /\ \E i \in 1..Len(TheQuery.Union[1].Queries) :
       /\ TheQuery.Union[1].Queries[i] # call.b
       /\ qb[TheQuery.Union[1].Queries[i]].query.Union # <<>>
Rows(seq) == {seq[i] : i \in 1..Len(seq)}

\* C28: only the union of the executed query is applied: the result is what
\* it is when the siblings have no unions of their own, and every data row
\* is a row of the primary or of one of its own siblings.
C28_OnlyTopLevelUnionApplied ==
  NestedUnion =>
    /\ ret.rows = ExecuteQuery(tables, WithoutOtherUnions(call.b), call.b).rows
    /\ ret.err = ExecuteQuery(tables, WithoutOtherUnions(call.b), call.b).err
    /\ Returned => Rows(Tail(ret.rows)) \subseteq Rows(UnionInputs)

\* a sibling's sibling has a row that the result does not have
C28_Witness ==
  /\ NestedUnion
  /\ Returned
  /\ Len(ret.rows) > 1
  /\ \E i \in 1..Len(TheQuery.Union[1].Queries) :
       LET s == TheQuery.Union[1].Queries[i]
       IN /\ s # call.b
          /\ qb[s].query.Union # <<>>
          /\ \E j \in 1..Len(qb[s].query.Union[1].Queries) :
               LET own == OwnResult(qb[s].query.Union[1].Queries[j])
               IN /\ own.err = <<>>
                  /\ Len(own.rows[1]) = Len(ret.rows[1])
                  /\ Rows(Tail(own.rows)) \ Rows(Tail(ret.rows)) # {}

(***************************************************************************)
(* SELECT at Build and at execution (SpecExec).                            *)
(***************************************************************************)
\* C29: a SELECT that SelectComponent.Validate accepts, one with computed
\* columns only included, is accepted by expandWildcards: the execution of a
\* built Query never fails with "SELECT must specify at least one column".
C29_SelectAcceptedAtBuildExpands ==
  /\ \A p \in held :
       LET q == qb[p].query
       IN (/\ q.Select # <<>> /\ SelectValidate(q.Select[1]) = <<>>
           /\ q.From # <<>> /\ q.From[1].Table \in DOMAIN tables)
            => expandWildcards(q.Select[1], tables, q.From[1].Table,
                               [i \in 1..Len(q.Joins) |-> q.Joins[i].Table]).err
                 # <<"SELECT must specify at least one column">>
  /\ Executed =>
       ~Carries(ret.err, "SELECT must specify at least one column")

(***************************************************************************)
(* The same Query executed again (SpecExec).                               *)
(***************************************************************************)
\* the step executes the Query that the call before it executed, on the same
\* tables
ExecutedAgain ==
  /\ pc' = pc + 1
  /\ call.m = "ExecuteQuery" /\ call'.m = "ExecuteQuery"
  /\ call'.b = call.b
  /\ tables' = tables

\* C30: two executions of a Query on the same tables return the same rows in
\* the same order, or both fail, whatever the order in which the runtime
\* iterates over the registry.
C30_ExecutionDeterministic ==
  [][ExecutedAgain =>
       /\ ret'.rows = ret.rows
       /\ ret'.panic = ret.panic
       /\ (ret'.err = <<>>) = (ret.err = <<>>)]_vars

====
